---- MODULE Spec2Model ----
(***************************************************************************)
(* A model of sources/manager_download.py (DownloadManager: the resource   *)
(* cache, the simple resource lookup, the single graph query with its 502  *)
(* retry, the pagination locator and the paginated traversal) and of       *)
(* sources/yearly_commit_calculator.py (the commit aggregation pass).      *)
(*                                                                         *)
(* Coroutines are modelled at their suspension points: an action is the    *)
(* code that runs between two awaits of one coroutine, which asyncio runs  *)
(* without interleaving.                                                   *)
(***************************************************************************)
EXTENDS Integers, Sequences, FiniteSets, TLC

(***************************************************************************)
(* Bounds of the model.                                                    *)
(***************************************************************************)
\* Spec: overlapping and sequential calls of get_remote_graphql
NumTasks == 2       \* coroutines
CallPages == 2      \* pages the server yields to one traversal
Call502 == 1        \* 502 responses the server gives in one run
\* SpecPages: one traversal
MaxPages == 3       \* pages the server yields to the traversal
MaxPageLen == 2     \* nodes on one page
MaxDepth == 2       \* envelope objects around the nodes/pageInfo object
Pages502 == 1       \* 502 responses the server gives in one run
\* SpecRetry: one coroutine against a failing gateway
RetryPages == 2     \* pages the server yields to one traversal
MaxGateway == 12    \* 502 responses the server gives in one run
\* SpecResources: load_remote_resources and the lookups
ResTasks == 2       \* coroutines
\* SpecAgg: one aggregation pass
MaxRepos == 3       \* repositories handed to the pass
MaxBranches == 2    \* branches of one repository
MaxFetches == 3     \* commit histories fetched in one pass

MaxCalls == 4       \* get_remote_graphql calls of a pass that runs on DownloadManager

(***************************************************************************)
(* Python values, tagged with their type so that isinstance can be         *)
(* modelled.  A dict is a function from its keys, a list a sequence.       *)
(***************************************************************************)
Dict(f) == [t |-> "dict", v |-> f]
List(s) == [t |-> "list", v |-> s]
Str(s) == [t |-> "str", v |-> s]
Bool(b) == [t |-> "bool", v |-> b]
Num(n) == [t |-> "int", v |-> n]
Null == [t |-> "null", v |-> 0]

\* bool(x) of a Python value
Truthy(x) ==
    CASE x.t = "bool" -> x.v
      [] x.t = "null" -> FALSE
      [] x.t = "int" -> x.v # 0
      [] x.t = "str" -> x.v # ""
      [] x.t = "list" -> Len(x.v) > 0
      [] x.t = "dict" -> DOMAIN x.v # {}

\* d.get(k) of a dict
DictGet(d, k) == IF k \in DOMAIN d.v THEN d.v[k] ELSE Null

\* str(x) as an f-string renders it (the values a cursor takes)
PyStr(x) == IF x.t = "str" THEN x.v ELSE "None"

\* What a coroutine has produced: nothing yet, a return value, or an exception.
Pending == [kind |-> "pending", value |-> Null]
Return(x) == [kind |-> "return", value |-> x]
Raise(exc, args) == [kind |-> "raise", value |-> [exc |-> exc, args |-> args]]

(***************************************************************************)
(* The query catalog: which templates hold the $pagination placeholder.    *)
(***************************************************************************)
GITHUB_API_QUERIES ==
    [repos_contributed_to |-> TRUE,
     user_repository_list |-> TRUE,
     repo_branch_list |-> TRUE,
     repo_commit_list |-> TRUE,
     hide_outdated_comment |-> FALSE]

HasPagination(query) == GITHUB_API_QUERIES[query]

\* retries_count's default
RetriesDefault == 10

(***************************************************************************)
(* The calls the model makes.  kwargs is the keyword mapping of the call.  *)
(***************************************************************************)
GraphCalls ==
    {[query |-> "repo_branch_list", kwargs |-> [owner |-> "o", name |-> "r1"]],
     [query |-> "repo_branch_list", kwargs |-> [owner |-> "o", name |-> "r2"]],
     [query |-> "hide_outdated_comment", kwargs |-> [id |-> "c1"]]}

\* md5(dumps(kwargs, sort_keys=True)).hexdigest(): a digest of the mapping,
\* the same for the same mapping and, on the mappings of the model, distinct
\* for distinct ones.
Md5Hex(kwargs) ==
    CASE kwargs = [owner |-> "o", name |-> "r1"] -> "0a"
      [] kwargs = [owner |-> "o", name |-> "r2"] -> "1b"
      [] kwargs = [id |-> "c1"] -> "2c"
      [] OTHER -> IF "branch" \in DOMAIN kwargs
                  THEN "c-" \o kwargs.name \o "-" \o kwargs.branch
                  ELSE "b-" \o kwargs.name

\* key = f"{query}_{md5(...).hexdigest()}"
GraphKey(query, kwargs) == query \o "_" \o Md5Hex(kwargs)

(***************************************************************************)
(* What the GraphQL endpoint answers with status 200.  The server is       *)
(* described by a record [shape, depth, ns, more, cur]; BodyOf builds the  *)
(* decoded JSON body (res.json()) of that description.                     *)
(***************************************************************************)
Cursors == {Str("a"), Str("b")}

EnvelopeKeys == <<"data", "repository">>

\* {"data": {"repository": x}} for depth 2: single-key wrapper objects
RECURSIVE Envelope(_, _)
Envelope(depth, x) ==
    IF depth = 0 THEN x
    ELSE Envelope(depth - 1,
                  Dict([k \in {EnvelopeKeys[((depth - 1) % Len(EnvelopeKeys)) + 1]} |-> x]))

PageInfo(cur, more) == Dict([endCursor |-> cur, hasNextPage |-> Bool(more)])

BodyOf(b) ==
    CASE b.shape = "page" ->
           Envelope(b.depth, Dict([nodes |-> List(b.ns), pageInfo |-> PageInfo(b.cur, b.more)]))
      [] b.shape = "null_nodes" ->
           Envelope(b.depth, Dict([nodes |-> Null, pageInfo |-> PageInfo(b.cur, b.more)]))
      [] b.shape = "null_leaf" ->
           Envelope(b.depth, Dict([refs |-> Null]))
      [] b.shape = "errors" ->
           Dict([data |-> Null, errors |-> List(<<Str("NOT_FOUND")>>)])
      [] b.shape = "empty" ->
           Dict(<<>>)
      [] b.shape = "mutation" ->
           Dict([data |-> Dict([minimizeComment |-> Dict([clientMutationId |-> Null])])])

\* The nodes of page number p that holds n nodes: every node is distinct.
PageNodes(p, n) == [i \in 1..n |-> Num(10 * p + i)]

(***************************************************************************)
(* DownloadManager._find_pagination_and_data_list                          *)
(***************************************************************************)
RECURSIVE _find_pagination_and_data_list(_)
_find_pagination_and_data_list(response) ==
    LET d == response.v IN
    IF "nodes" \in DOMAIN d /\ "pageInfo" \in DOMAIN d
    THEN [nodes |-> d["nodes"], page_info |-> d["pageInfo"]]
    ELSE IF Cardinality(DOMAIN d) = 1 /\ d[CHOOSE k \in DOMAIN d : TRUE].t = "dict"
    THEN _find_pagination_and_data_list(d[CHOOSE k \in DOMAIN d : TRUE])
    ELSE [nodes |-> List(<<>>), page_info |-> Dict([hasNextPage |-> Bool(FALSE)])]

\* Extend with the new page taking the place of the accumulated nodes.
Extend_Replace(nodes, new_nodes) == Return(new_nodes)

\* nodes.extend(new_nodes): an exception unless both are lists
Extend(nodes, new_nodes) ==
    IF nodes.t # "list" THEN Raise("AttributeError", <<"extend">>)
    ELSE IF new_nodes.t # "list" THEN Raise("TypeError", <<"not iterable">>)
    ELSE Return(List(nodes.v \o new_nodes.v))

\* The pagination argument without the cursor.
AfterPagination_NoCursor(after) == "first: 100"

\* pagination=f'first: 100, after: "{after}"'
AfterPagination(after) == "first: 100, after: \"" \o PyStr(after) \o "\""

(***************************************************************************)
(* Simple resources: the responses of client.get and the two decoders.     *)
(***************************************************************************)
Response(status_code, content, url) ==
    [t |-> "response", v |-> [status_code |-> status_code, content |-> content, url |-> url]]

ResourceUrl(resource) ==
    CASE resource = "linguist" -> "https://cdn.jsdelivr.net/linguist/languages.yml"
      [] resource = "github_stats" -> "https://github-contributions.vercel.app/api/v1/user"

\* The bodies a resource server sends; the first is JSON (and so YAML), the
\* second is YAML only.
JsonContent == "{\"a\": 1}"
YamlContent == "a: 1"

\* res.json()
JsonLoads(content) ==
    IF content = JsonContent THEN Return(Dict([a |-> Num(1)]))
    ELSE Raise("JSONDecodeError", <<content>>)

\* yaml.safe_load(res.content)
SafeLoad(content) ==
    IF content \in {JsonContent, YamlContent} THEN Return(Dict([a |-> Num(1)]))
    ELSE IF content = "" THEN Return(Null)
    ELSE Return(Str(content))

(***************************************************************************)
(* State of DownloadManager and of the coroutines that call into it.       *)
(***************************************************************************)
VARIABLES
    cache,          \* DownloadManager._REMOTE_RESOURCES_CACHE: key -> value
    pc,             \* per task: where the coroutine is suspended
    call,           \* per task: the operation called and its arguments
    retries_count,  \* per task: retries_count of the running _fetch_graphql_query
    nodes,          \* per task: nodes of _fetch_graphql_paginated
    idx,            \* per task: position of load_remote_resources in its resources
    ret,            \* per task: what the call returned or raised
    sent,           \* per task: the requests the call has issued, in order
    recv,           \* per task: the responses the call has received, in order
    before,         \* per task: the tasks that had finished when it was called
    writes,         \* per key: how many times the cache entry was assigned
    left502,        \* 502 responses the server may still give
    lim             \* the bounds and the inputs of the run

dmvars == <<cache, pc, call, retries_count, nodes, idx, ret, sent, recv, before,
            writes, left502, lim>>

\* The aggregation pass and the date bucket.
VARIABLES
    repositories,   \* the argument of calculate_commit_data
    IGNORED_REPOS,  \* EM.IGNORED_REPOS
    DEBUG_RUN,      \* EM.DEBUG_RUN
    content,        \* what FM.cache_binary("commits_data.pick") restores, or Null
    saved,          \* what the pass has persisted with FM.cache_binary, or Null
    apc,            \* where the pass is suspended
    ind,            \* index of the repository being processed
    branch_data,    \* branch list of that repository
    bi,             \* index of the branch being processed
    yearly_data,    \* year -> quarter -> language -> [add, del]
    date_data,      \* repository name -> branch name -> oid -> committedDate
    outcome,         \* what calculate_commit_data returned or raised
    trace,          \* the get_remote_graphql calls and the sleeps of the pass, in order
    folded,         \* the commits folded so far, in order
    commit_lists,   \* the values a commit-history fetch may return
    sample,         \* SpecQuarter: the date given to Bucket
    bucket          \* SpecQuarter: what Bucket made of it

aggvars == <<repositories, IGNORED_REPOS, DEBUG_RUN, content, saved, apc, ind, branch_data,
             bi, yearly_data, date_data, outcome, trace, folded, commit_lists>>

qvars == <<sample, bucket>>

vars == <<dmvars, aggvars, qvars>>

Tasks == 1..lim.tasks

NoCall == [op |-> "none", query |-> "", kwargs |-> <<>>, resources |-> <<>>]

InitDM(l, n502) ==
    /\ lim = l
    /\ left502 = n502
    /\ cache = <<>>
    /\ pc = [t \in 1..l.tasks |-> "idle"]
    /\ call = [t \in 1..l.tasks |-> NoCall]
    /\ retries_count = [t \in 1..l.tasks |-> 0]
    /\ nodes = [t \in 1..l.tasks |-> Null]
    /\ idx = [t \in 1..l.tasks |-> 0]
    /\ ret = [t \in 1..l.tasks |-> Pending]
    /\ sent = [t \in 1..l.tasks |-> <<>>]
    /\ recv = [t \in 1..l.tasks |-> <<>>]
    /\ before = [t \in 1..l.tasks |-> {}]
    /\ writes = <<>>

Finished(t) == pc[t] \in {"returned", "raised"}

\* _REMOTE_RESOURCES_CACHE[key] = value
Store(c, key, value) == [k \in DOMAIN c \cup {key} |-> IF k = key THEN value ELSE c[k]]

Count(w, key) == [k \in DOMAIN w \cup {key} |-> IF k \in DOMAIN w THEN (IF k = key THEN w[k] + 1 ELSE w[k]) ELSE 1]

KeyOfTask(t) == GraphKey(call[t].query, call[t].kwargs)

\* The coroutine of task t ends with outcome o.
Finish(t, o) ==
    /\ ret' = [ret EXCEPT ![t] = o]
    /\ pc' = [pc EXCEPT ![t] = IF o.kind = "raise" THEN "raised" ELSE "returned"]

\* await DownloadManager._client.post(...): the request leaves, the task suspends.
Post(t, pagination) == sent' = [sent EXCEPT ![t] = Append(@, pagination)]

(***************************************************************************)
(* DownloadManager.get_remote_graphql, up to its first suspension.         *)
(***************************************************************************)
GetRemoteGraphql(t, c) ==
    /\ pc[t] = "idle"
    /\ call' = [call EXCEPT ![t] = [op |-> "get_remote_graphql", query |-> c.query,
                                    kwargs |-> c.kwargs, resources |-> <<>>]]
    /\ before' = [before EXCEPT ![t] = {u \in Tasks : Finished(u)}]
    /\ LET key == GraphKey(c.query, c.kwargs) IN
       IF key \in DOMAIN cache
       THEN /\ Finish(t, Return(cache[key]))
            /\ UNCHANGED <<cache, retries_count, nodes, idx, sent, recv, writes, left502, lim>>
       ELSE /\ pc' = [pc EXCEPT ![t] = IF HasPagination(c.query) THEN "initial" ELSE "single"]
            /\ Post(t, IF HasPagination(c.query) THEN "first: 100" ELSE "")
            /\ retries_count' = [retries_count EXCEPT ![t] = RetriesDefault]
            /\ UNCHANGED <<cache, nodes, idx, ret, recv, writes, left502, lim>>
    /\ UNCHANGED <<aggvars, qvars>>

Awaiting(t) == pc[t] \in {"initial", "paginated", "single"}

\* StoreAndReturn without the assignment to the cache.
StoreAndReturn_Forget(t, result) ==
    /\ Finish(t, Return(result))
    /\ UNCHANGED <<cache, writes>>

\* get_remote_graphql after its fetch: the cache entry is assigned and returned.
StoreAndReturn(t, result) ==
    /\ cache' = Store(cache, KeyOfTask(t), result)
    /\ writes' = Count(writes, KeyOfTask(t))
    /\ Finish(t, Return(Store(cache, KeyOfTask(t), result)[KeyOfTask(t)]))

\* Paginate assigning the cache entry after every page.
Paginate_StoreEachPage(t, ns, page_info) ==
    IF Truthy(DictGet(page_info, "hasNextPage"))
    THEN /\ Post(t, AfterPagination(DictGet(page_info, "endCursor")))
         /\ pc' = [pc EXCEPT ![t] = "paginated"]
         /\ nodes' = [nodes EXCEPT ![t] = ns]
         /\ retries_count' = [retries_count EXCEPT ![t] = RetriesDefault]
         /\ cache' = Store(cache, KeyOfTask(t), ns)
         /\ writes' = Count(writes, KeyOfTask(t))
         /\ UNCHANGED ret
    ELSE /\ StoreAndReturn(t, ns)
         /\ nodes' = [nodes EXCEPT ![t] = ns]
         /\ UNCHANGED <<sent, retries_count>>

\* _fetch_graphql_paginated once a page is located: the loop test, then
\* either the next request or the return.
Paginate(t, ns, page_info) ==
    IF Truthy(DictGet(page_info, "hasNextPage"))
    THEN /\ Post(t, AfterPagination(DictGet(page_info, "endCursor")))
         /\ pc' = [pc EXCEPT ![t] = "paginated"]
         /\ nodes' = [nodes EXCEPT ![t] = ns]
         /\ retries_count' = [retries_count EXCEPT ![t] = RetriesDefault]
         /\ UNCHANGED <<cache, writes, ret>>
    ELSE /\ StoreAndReturn(t, ns)
         /\ nodes' = [nodes EXCEPT ![t] = ns]
         /\ UNCHANGED <<sent, retries_count>>

\* The bodies the server may send to task t with status 200.
PagesSeen(t) == Len(SelectSeq(recv[t], LAMBDA r : r.status = 200))

ServerBodies(t) ==
    IF pc[t] = "single"
    THEN {[shape |-> sh, depth |-> 0, ns |-> <<>>, more |-> FALSE, cur |-> Null] :
            sh \in {"mutation", "errors"} \cap (lim.shapes \cup {"mutation"})}
    ELSE {[shape |-> sh, depth |-> d, ns |-> PageNodes(PagesSeen(t) + 1, n), more |-> m, cur |-> c] :
            sh \in {"page"}, d \in lim.depths, n \in lim.lens,
            m \in {x \in BOOLEAN : x => PagesSeen(t) + 1 < lim.pages}, c \in lim.cursors}
         \cup
         {[shape |-> sh, depth |-> d, ns |-> <<>>, more |-> m, cur |-> Str("a")] :
            sh \in {"null_nodes"} \cap lim.shapes, d \in {0},
            m \in {x \in BOOLEAN : x => PagesSeen(t) + 1 < lim.pages}}
         \cup
         {[shape |-> sh, depth |-> d, ns |-> <<>>, more |-> FALSE, cur |-> Null] :
            sh \in {"null_leaf", "errors", "empty"} \cap lim.shapes, d \in {1}}

Received(b) == [status |-> 200, shape |-> b.shape, ns |-> b.ns, more |-> b.more, cur |-> b.cur]

\* _fetch_graphql_query receives status 200 and returns res.json(); its
\* caller runs on to its next suspension or to its end.
Respond200(t, b) ==
    /\ Awaiting(t)
    /\ recv' = [recv EXCEPT ![t] = Append(@, Received(b))]
    /\ LET body == BodyOf(b)
           found == _find_pagination_and_data_list(body)
           more == Extend(nodes[t], found.nodes)
       IN  CASE pc[t] = "single" ->
                  /\ StoreAndReturn(t, body)
                  /\ UNCHANGED <<nodes, sent, retries_count>>
             [] pc[t] = "initial" ->
                  Paginate(t, found.nodes, found.page_info)
             [] pc[t] = "paginated" ->
                  IF more.kind = "raise"
                  THEN /\ Finish(t, more)
                       /\ UNCHANGED <<cache, writes, nodes, sent, retries_count>>
                  ELSE Paginate(t, more.value, found.page_info)
    /\ UNCHANGED <<call, idx, before, left502, lim>>
    /\ UNCHANGED <<aggvars, qvars>>

Failure(status) == [status |-> status, shape |-> "", ns |-> <<>>, more |-> FALSE, cur |-> Null]

StatusText(status) ==
    CASE status = 502 -> "Bad Gateway"
      [] status = 401 -> "Unauthorized"
      [] status = 404 -> "Not Found"
      [] OTHER -> ""

\* f"Query '{query}' failed with code {res.status_code}: {res.text}"
QueryFailed(t, status) == Raise("Exception", <<call[t].query, status, StatusText(status)>>)

\* Respond502 retrying while retries_count >= 0.
Respond502_OneMore(t) ==
    /\ Awaiting(t)
    /\ left502 > 0
    /\ left502' = left502 - 1
    /\ recv' = [recv EXCEPT ![t] = Append(@, Failure(502))]
    /\ IF retries_count[t] >= 0
       THEN /\ retries_count' = [retries_count EXCEPT ![t] = @ - 1]
            /\ Post(t, sent[t][Len(sent[t])])
            /\ UNCHANGED <<pc, ret>>
       ELSE /\ Finish(t, QueryFailed(t, 502))
            /\ UNCHANGED <<retries_count, sent>>
    /\ UNCHANGED <<cache, call, nodes, idx, before, writes, lim>>
    /\ UNCHANGED <<aggvars, qvars>>

\* _fetch_graphql_query receives status 502.
Respond502(t) ==
    /\ Awaiting(t)
    /\ left502 > 0
    /\ left502' = left502 - 1
    /\ recv' = [recv EXCEPT ![t] = Append(@, Failure(502))]
    /\ IF retries_count[t] > 0
       THEN /\ retries_count' = [retries_count EXCEPT ![t] = @ - 1]
            /\ Post(t, sent[t][Len(sent[t])])
            /\ UNCHANGED <<pc, ret>>
       ELSE /\ Finish(t, QueryFailed(t, 502))
            /\ UNCHANGED <<retries_count, sent>>
    /\ UNCHANGED <<cache, call, nodes, idx, before, writes, lim>>
    /\ UNCHANGED <<aggvars, qvars>>

\* RespondError retrying while retries are left, as on a 502.
RespondError_Retry(t, status) ==
    /\ Awaiting(t)
    /\ status \notin {200, 502}
    /\ recv' = [recv EXCEPT ![t] = Append(@, Failure(status))]
    /\ IF retries_count[t] > 0
       THEN /\ retries_count' = [retries_count EXCEPT ![t] = @ - 1]
            /\ Post(t, sent[t][Len(sent[t])])
            /\ UNCHANGED <<pc, ret>>
       ELSE /\ Finish(t, QueryFailed(t, status))
            /\ UNCHANGED <<retries_count, sent>>
    /\ UNCHANGED <<cache, call, nodes, idx, before, writes, left502, lim>>
    /\ UNCHANGED <<aggvars, qvars>>

\* _fetch_graphql_query receives any other status.
RespondError(t, status) ==
    /\ Awaiting(t)
    /\ status \notin {200, 502}
    /\ recv' = [recv EXCEPT ![t] = Append(@, Failure(status))]
    /\ Finish(t, QueryFailed(t, status))
    /\ UNCHANGED <<cache, call, retries_count, nodes, idx, sent, before, writes, left502, lim>>
    /\ UNCHANGED <<aggvars, qvars>>

(***************************************************************************)
(* DownloadManager.load_remote_resources                                   *)
(***************************************************************************)
Resources == {"linguist", "github_stats"}

ResourceLoads == {<<"linguist">>, <<"github_stats", "linguist">>}

ResourceResponses ==
    {[status |-> 200, content |-> JsonContent],
     [status |-> 200, content |-> YamlContent],
     [status |-> 201, content |-> ""],
     [status |-> 202, content |-> ""],
     [status |-> 404, content |-> "Not Found"]}

LoadRemoteResources(t, rs) ==
    /\ pc[t] = "idle"
    /\ call' = [call EXCEPT ![t] = [op |-> "load_remote_resources", query |-> "",
                                    kwargs |-> <<>>, resources |-> rs]]
    /\ before' = [before EXCEPT ![t] = {u \in Tasks : Finished(u)}]
    /\ pc' = [pc EXCEPT ![t] = "get"]
    /\ idx' = [idx EXCEPT ![t] = 1]
    /\ Post(t, ResourceUrl(rs[1]))
    /\ UNCHANGED <<cache, retries_count, nodes, ret, recv, writes, left502, lim>>
    /\ UNCHANGED <<aggvars, qvars>>

\* client.get(url) answers: the response itself is stored, whatever its status.
GetResponds(t, r) ==
    /\ pc[t] = "get"
    /\ LET resource == call[t].resources[idx[t]] IN
       /\ cache' = Store(cache, resource, Response(r.status, r.content, ResourceUrl(resource)))
       /\ writes' = Count(writes, resource)
    /\ recv' = [recv EXCEPT ![t] = Append(@, [status |-> r.status, shape |-> r.content,
                                               ns |-> <<>>, more |-> FALSE, cur |-> Null])]
    /\ IF idx[t] < Len(call[t].resources)
       THEN /\ idx' = [idx EXCEPT ![t] = @ + 1]
            /\ Post(t, ResourceUrl(call[t].resources[idx[t] + 1]))
            /\ UNCHANGED <<pc, ret>>
       ELSE /\ Finish(t, Return(Null))
            /\ UNCHANGED <<idx, sent>>
    /\ UNCHANGED <<call, retries_count, nodes, before, left502, lim>>
    /\ UNCHANGED <<aggvars, qvars>>

(***************************************************************************)
(* DownloadManager._get_remote_resource: no await before its return, so    *)
(* the whole lookup is one step.  convertor is "safe_load" or "None".      *)
(***************************************************************************)
\* _get_remote_resource raising on 201 and 202 as on any other non-200 status.
_get_remote_resource_Strict(c, resource, convertor) ==
    IF resource \notin DOMAIN c THEN Raise("KeyError", <<resource>>)
    ELSE LET res == c[resource].v IN
         IF res.status_code = 200
         THEN IF convertor # "None" THEN SafeLoad(res.content) ELSE JsonLoads(res.content)
         ELSE Raise("Exception", <<res.url, res.status_code, res.content>>)

_get_remote_resource(c, resource, convertor) ==
    IF resource \notin DOMAIN c THEN Raise("KeyError", <<resource>>)
    ELSE LET res == c[resource].v IN
         IF res.status_code = 200
         THEN IF convertor # "None" THEN SafeLoad(res.content) ELSE JsonLoads(res.content)
         ELSE IF res.status_code \in {201, 202}
         THEN Return(Null)
         ELSE Raise("Exception", <<res.url, res.status_code, res.content>>)

Lookup(t, op, resource, convertor) ==
    /\ pc[t] = "idle"
    /\ call' = [call EXCEPT ![t] = [op |-> op, query |-> "", kwargs |-> <<>>,
                                    resources |-> <<resource>>]]
    /\ before' = [before EXCEPT ![t] = {u \in Tasks : Finished(u)}]
    /\ Finish(t, _get_remote_resource(cache, resource, convertor))
    /\ UNCHANGED <<cache, retries_count, nodes, idx, sent, recv, writes, left502, lim>>
    /\ UNCHANGED <<aggvars, qvars>>

GetRemoteJson(t, resource) == Lookup(t, "get_remote_json", resource, "None")

GetRemoteYaml(t, resource) == Lookup(t, "get_remote_yaml", resource, "safe_load")

\* DownloadManager.close_remote_resources: no cache value is a Task or an
\* Awaitable (every entry is stored after its await), so the loop does nothing.
CloseRemoteResources(t) ==
    /\ pc[t] = "idle"
    /\ call' = [call EXCEPT ![t] = [op |-> "close_remote_resources", query |-> "",
                                    kwargs |-> <<>>, resources |-> <<>>]]
    /\ before' = [before EXCEPT ![t] = {u \in Tasks : Finished(u)}]
    /\ Finish(t, Return(Null))
    /\ UNCHANGED <<cache, retries_count, nodes, idx, sent, recv, writes, left502, lim>>
    /\ UNCHANGED <<aggvars, qvars>>

(***************************************************************************)
(* sources/yearly_commit_calculator.py.  A string the code searches or     *)
(* parses is a sequence of one-character strings.                          *)
(***************************************************************************)
Digits == <<"0", "1", "2", "3", "4", "5", "6", "7", "8", "9">>

IsDigit(c) == \E i \in 1..10 : Digits[i] = c

DigitVal(c) == (CHOOSE i \in 1..10 : Digits[i] = c) - 1

\* int(cs) of a run of digits
RECURSIVE Number(_)
Number(cs) ==
    IF cs = <<>> THEN 0 ELSE 10 * Number(SubSeq(cs, 1, Len(cs) - 1)) + DigitVal(cs[Len(cs)])

\* The first position at or after i that holds no digit: \d+ is greedy.
RECURSIVE DigitsEnd(_, _)
DigitsEnd(cs, i) == IF i <= Len(cs) /\ IsDigit(cs[i]) THEN DigitsEnd(cs, i + 1) ELSE i

\* Where a match of \d+-\d+-\d+ that starts at i ends; 0 when none starts there.
MatchAt(cs, i) ==
    LET e1 == DigitsEnd(cs, i)
        e2 == DigitsEnd(cs, e1 + 1)
        e3 == DigitsEnd(cs, e2 + 1)
    IN  IF e1 = i \/ e1 > Len(cs) \/ cs[e1] # "-" THEN 0
        ELSE IF e2 = e1 + 1 \/ e2 > Len(cs) \/ cs[e2] # "-" THEN 0
        ELSE IF e3 = e2 + 1 THEN 0
        ELSE e3 - 1

\* re.search(r"\d+-\d+-\d+", cs): the leftmost match, or no match
search(cs) ==
    LET starts == {i \in 1..Len(cs) : MatchAt(cs, i) # 0} IN
    IF starts = {} THEN [found |-> FALSE, group |-> <<>>]
    ELSE LET i == CHOOSE j \in starts : \A k \in starts : j <= k
         IN  [found |-> TRUE, group |-> SubSeq(cs, i, MatchAt(cs, i))]

IsLeap(year) == (year % 4 = 0 /\ year % 100 # 0) \/ year % 400 = 0

DaysInMonth(year, month) ==
    IF month = 2 THEN (IF IsLeap(year) THEN 29 ELSE 28)
    ELSE IF month \in {4, 6, 9, 11} THEN 30 ELSE 31

\* datetime.fromisoformat(date) of a digits-digits-digits string: YYYY-MM-DD
\* naming a day of the calendar, else ValueError.
fromisoformat(date) ==
    LET h1 == DigitsEnd(date, 1)
        h2 == DigitsEnd(date, h1 + 1)
        year == Number(SubSeq(date, 1, 4))
        month == Number(SubSeq(date, 6, 7))
        day == Number(SubSeq(date, 9, 10))
    IN  IF Len(date) # 10 \/ h1 # 5 \/ h2 # 8 THEN Raise("ValueError", <<"Invalid isoformat string">>)
        ELSE IF year < 1 \/ month \notin 1..12 \/ day \notin 1..DaysInMonth(year, month)
        THEN Raise("ValueError", <<"out of range">>)
        ELSE Return([year |-> year, month |-> month, day |-> day])

\* quarter = (month - 1) // 3 + 1 with an off-by-one in the month.
Quarter_OffByOne(month) == month \div 3 + 1

\* quarter = (datetime.fromisoformat(date).month - 1) // 3 + 1
Quarter(month) == (month - 1) \div 3 + 1

\* commit.get("committedDate", "")
CommittedDate(commit) ==
    IF "committedDate" \in DOMAIN commit THEN commit.committedDate ELSE <<>>

\* Lines 117-123 for one commit: "skip" when no date is found, an exception
\* when the date found does not parse, else the year and the quarter.
Bucket(commit) ==
    LET date_match == search(CommittedDate(commit))
        parsed == fromisoformat(date_match.group)
    IN  IF ~date_match.found THEN [kind |-> "skip", curr_year |-> 0, quarter |-> 0]
        ELSE IF parsed.kind = "raise" THEN [kind |-> "raise", curr_year |-> 0, quarter |-> 0]
        ELSE [kind |-> "ok", curr_year |-> parsed.value.year,
              quarter |-> Quarter(parsed.value.month)]

\* Writing a date as the API does: YYYY-MM-DD, then the time of day.
Pad2(n) == <<Digits[(n \div 10) + 1], Digits[(n % 10) + 1]>>

IsoDate(y, m, d) ==
    <<Digits[(y \div 1000) + 1], Digits[((y \div 100) % 10) + 1]>> \o Pad2(y % 100)
        \o <<"-">> \o Pad2(m) \o <<"-">> \o Pad2(d)

TimeOfDay == <<"T", "1", "0", ":", "3", "0", ":", "0", "0", "Z">>

(***************************************************************************)
(* The aggregation pass.  DownloadManager.get_remote_graphql is the        *)
(* collaborator of the pass: what a call returns (or that it raises) is an *)
(* input, drawn when the call returns.                                     *)
(***************************************************************************)
Repo(name, language, private) ==
    [name |-> name, owner |-> [login |-> "o"], primaryLanguage |-> language, isPrivate |-> private]

Language(name) == Dict([name |-> name])

\* The repositories of the model, in the order the pass may be given them.
RepoPool ==
    <<Repo("r1", Language("Python"), FALSE),
      Repo("r2", Null, TRUE),
      Repo("r3", Language("Python"), FALSE),
      Repo("r4", Language("Go"), FALSE)>>

\* The increasing index sequences of length n over 1..m.
Choices(m, n) == {c \in [1..n -> 1..m] : \A i \in 1..(n - 1) : c[i] < c[i + 1]}

RepoLists ==
    {[i \in 1..Len(c) |-> RepoPool[c[i]]] :
        c \in UNION {Choices(Len(RepoPool), n) : n \in 1..MaxRepos}}

BranchNames == <<"main", "dev", "gh-pages", "old">>

Branch(name) == [name |-> name]

\* The branch lists the collaborator may return.
BranchLists ==
    {List([i \in 1..n |-> Branch(BranchNames[i])]) : n \in 0..MaxBranches}

\* The commits of the model, each with the year and the quarter its date lies in.
CommitFacts ==
    {[commit |-> [oid |-> "a", committedDate |-> IsoDate(2023, 4, 15) \o TimeOfDay,
                  additions |-> 10, deletions |-> 2], year |-> 2023, quarter |-> 2],
     [commit |-> [oid |-> "b", committedDate |-> IsoDate(2023, 5, 1) \o TimeOfDay,
                  additions |-> 5, deletions |-> 1], year |-> 2023, quarter |-> 2],
     [commit |-> [oid |-> "c", committedDate |-> IsoDate(2023, 12, 31),
                  additions |-> 3, deletions |-> 4], year |-> 2023, quarter |-> 4]}

CommitOf(oid) == (CHOOSE f \in CommitFacts : f.commit.oid = oid).commit

\* An error-shaped value in place of a commit list.
ErrorValue == Dict([errors |-> List(<<Str("timeout")>>)])

\* What a commit-list fetch may evaluate to: lists of commits, and the two
\* values that are no list (an error-shaped dict, None).
CommitLists ==
    {List(<<>>), List(<<CommitOf("a"), CommitOf("b")>>), List(<<CommitOf("c")>>),
     ErrorValue, Null}

(***************************************************************************)
(* Lines 116-135: the fold of one branch's commits into the two            *)
(* structures.  st is [yearly, dates, log, err].                           *)
(***************************************************************************)
\* d.setdefault(k, v), as the dict it leaves
SetDefault(d, k, v) == IF k \in DOMAIN d THEN d ELSE d @@ (k :> v)

\* d[k] = v
SetItem(d, k, v) == [x \in DOMAIN d \cup {k} |-> IF x = k THEN v ELSE d[x]]

\* Lines 125-129
RecordDate(dates, repo_name, branch_name, commit) ==
    LET d1 == SetDefault(dates, repo_name, <<>>)
        d2 == SetDefault(d1[repo_name], branch_name, <<>>)
    IN  SetItem(d1, repo_name,
                SetItem(d1[repo_name], branch_name,
                        SetItem(d2[branch_name], commit["oid"], commit["committedDate"])))

\* Lines 132-135 with = in place of +=.
AddStats_Overwrite(yearly, curr_year, quarter, lang, commit) ==
    LET y1 == SetDefault(yearly, curr_year, <<>>)
        q1 == SetDefault(y1[curr_year], quarter, <<>>)
        l1 == SetDefault(q1[quarter], lang, [add |-> 0, del |-> 0])
        entry == [add |-> commit["additions"], del |-> commit["deletions"]]
    IN  SetItem(y1, curr_year, SetItem(y1[curr_year], quarter, SetItem(l1, lang, entry)))

\* Lines 132-135
AddStats(yearly, curr_year, quarter, lang, commit) ==
    LET y1 == SetDefault(yearly, curr_year, <<>>)
        q1 == SetDefault(y1[curr_year], quarter, <<>>)
        l1 == SetDefault(q1[quarter], lang, [add |-> 0, del |-> 0])
        entry == [add |-> l1[lang].add + commit["additions"],
                  del |-> l1[lang].del + commit["deletions"]]
    IN  SetItem(y1, curr_year, SetItem(y1[curr_year], quarter, SetItem(l1, lang, entry)))

\* Commits without a date that parses: no committedDate at all, one with no
\* date in it, one dated on a day that does not exist, one dated in a form
\* that is not YYYY-MM-DD.
UndatedCommits ==
    {[oid |-> "d", additions |-> 7, deletions |-> 7],
     [oid |-> "e", committedDate |-> <<"n", "/", "a">>, additions |-> 7, deletions |-> 7],
     [oid |-> "f", committedDate |-> IsoDate(2023, 2, 30) \o TimeOfDay,
      additions |-> 7, deletions |-> 7],
     [oid |-> "g", committedDate |-> <<"2", "3", "-", "4", "-", "5">>,
      additions |-> 7, deletions |-> 7]}

\* The commit lists with one of them between two dated commits.
UndatedLists == {List(<<CommitOf("a"), x, CommitOf("b")>>) : x \in UndatedCommits}

\* Bucket on the commits of the model, evaluated once.
AllCommits == {f.commit : f \in CommitFacts} \cup UndatedCommits

BucketOf == [commit \in AllCommits |-> Bucket(commit)]

\* Lines 125-135 with the date recorded under the language test.
FoldCommit_LanguageOnly(st, repo_details, branch, commit) ==
    LET b == BucketOf[commit] IN
    IF b.kind = "skip" THEN st
    ELSE IF b.kind = "raise" THEN [st EXCEPT !.err = TRUE]
    ELSE IF repo_details.primaryLanguage.t = "null" THEN st
    ELSE [yearly |-> AddStats(st.yearly, b.curr_year, b.quarter,
                              repo_details.primaryLanguage.v.name, commit),
          dates |-> RecordDate(st.dates, repo_details.name, branch.name, commit),
          log |-> Append(st.log, [repo |-> repo_details.name, branch |-> branch.name,
                                  language |-> repo_details.primaryLanguage,
                                  commit |-> commit]),
          err |-> FALSE]

\* FoldCommit tallying a commit only when its oid is not yet in the dates of
\* the repository.
FoldCommit_OncePerOid(st, repo_details, branch, commit) ==
    LET b == BucketOf[commit]
        known == /\ repo_details.name \in DOMAIN st.dates
                 /\ \E br \in DOMAIN st.dates[repo_details.name] :
                        commit["oid"] \in DOMAIN st.dates[repo_details.name][br]
    IN
    IF b.kind = "skip" THEN st
    ELSE IF b.kind = "raise" THEN [st EXCEPT !.err = TRUE]
    ELSE [yearly |-> IF repo_details.primaryLanguage.t # "null" /\ ~known
                     THEN AddStats(st.yearly, b.curr_year, b.quarter,
                                   repo_details.primaryLanguage.v.name, commit)
                     ELSE st.yearly,
          dates |-> RecordDate(st.dates, repo_details.name, branch.name, commit),
          log |-> Append(st.log, [repo |-> repo_details.name, branch |-> branch.name,
                                  language |-> repo_details.primaryLanguage,
                                  commit |-> commit]),
          err |-> FALSE]

\* Lines 116-135 for one commit.
FoldCommit(st, repo_details, branch, commit) ==
    LET b == BucketOf[commit] IN
    IF b.kind = "skip" THEN st
    ELSE IF b.kind = "raise" THEN [st EXCEPT !.err = TRUE]
    ELSE [yearly |-> IF repo_details.primaryLanguage.t # "null"
                     THEN AddStats(st.yearly, b.curr_year, b.quarter,
                                   repo_details.primaryLanguage.v.name, commit)
                     ELSE st.yearly,
          dates |-> RecordDate(st.dates, repo_details.name, branch.name, commit),
          log |-> Append(st.log, [repo |-> repo_details.name, branch |-> branch.name,
                                  language |-> repo_details.primaryLanguage,
                                  commit |-> commit]),
          err |-> FALSE]

RECURSIVE FoldCommits(_, _, _, _)
FoldCommits(st, repo_details, branch, commits) ==
    IF commits = <<>> \/ st.err THEN st
    ELSE FoldCommits(FoldCommit(st, repo_details, branch, Head(commits)),
                     repo_details, branch, Tail(commits))

(***************************************************************************)
(* calculate_commit_data and update_data_with_commit_stats, one action per *)
(* stretch of code between two awaits.                                     *)
(***************************************************************************)
Fetch(query, repo, branch) ==
    [ev |-> "fetch", query |-> query, owner |-> repo.owner.login, name |-> repo.name,
     branch |-> branch, value |-> Null]

\* What the await of a fetch evaluated to.
Returned(query, repo, branch, v) ==
    [ev |-> "return", query |-> query, owner |-> repo.owner.login, name |-> repo.name,
     branch |-> branch, value |-> v]

Slept ==
    [ev |-> "sleep", query |-> "", owner |-> "", name |-> "", branch |-> "", value |-> Null]

\* The next repository after position i, ignored or not; 0 when none is left.
NextRepo_All(i) == IF i < Len(repositories) THEN i + 1 ELSE 0

\* The next repository after position i that is not ignored; 0 when none is left.
NextRepo(i) ==
    LET later == {k \in (i + 1)..Len(repositories) : repositories[k].name \notin IGNORED_REPOS}
    IN  IF later = {} THEN 0 ELSE CHOOSE k \in later : \A j \in later : k <= j

\* Complete returning an empty pair in a debug run.
Complete_DebugEmpty(y, d, tr) ==
    /\ apc' = "done"
    /\ outcome' = Return(IF DEBUG_RUN THEN List(<<<<>>, <<>>>>) ELSE List(<<y, d>>))
    /\ saved' = IF DEBUG_RUN THEN List(<<y, d>>) ELSE saved
    /\ trace' = tr
    /\ UNCHANGED <<ind, branch_data, bi>>

\* Lines 38-44: the loop is over, the pair is persisted in a debug run and returned.
Complete(y, d, tr) ==
    /\ apc' = "done"
    /\ outcome' = Return(List(<<y, d>>))
    /\ saved' = IF DEBUG_RUN THEN List(<<y, d>>) ELSE saved
    /\ trace' = tr
    /\ UNCHANGED <<ind, branch_data, bi>>

\* Lines 33-37 and 91-92: on to the next repository that is not ignored, up
\* to the await of its branch list.
Advance(i, y, d, tr) ==
    IF NextRepo(i) = 0 THEN Complete(y, d, tr)
    ELSE /\ ind' = NextRepo(i)
         /\ apc' = "branches"
         /\ trace' = Append(tr, Fetch("repo_branch_list", repositories[NextRepo(i)], ""))
         /\ UNCHANGED <<outcome, saved, branch_data, bi>>

\* Lines 97-104: on to the next branch, up to the await of its commit list.
NextBranch(y, d, tr) ==
    IF bi < Len(branch_data.v)
    THEN /\ bi' = bi + 1
         /\ apc' = "commits"
         /\ trace' = Append(tr, Fetch("repo_commit_list", repositories[ind],
                                         branch_data.v[bi + 1].name))
         /\ UNCHANGED <<outcome, saved, ind, branch_data>>
    ELSE Advance(ind, y, d, tr)

\* calculate_commit_data is called.
CalculateCommitData ==
    /\ apc = "start"
    /\ IF DEBUG_RUN /\ content.t # "null"
       THEN /\ apc' = "done"
            /\ outcome' = Return(content)
            /\ UNCHANGED <<yearly_data, date_data, saved, ind, branch_data, bi, trace>>
       ELSE /\ yearly_data' = <<>>
            /\ date_data' = <<>>
            /\ Advance(0, <<>>, <<>>, trace)
    /\ UNCHANGED <<repositories, IGNORED_REPOS, DEBUG_RUN, content, folded, commit_lists>>
    /\ UNCHANGED <<dmvars, qvars>>

\* get_remote_graphql("repo_branch_list", ...) returns.
BranchListReturns(v) ==
    /\ apc = "branches"
    /\ LET tr == Append(trace, Returned("repo_branch_list", repositories[ind], "", v))
       IN  IF v.t = "null" \/ (v.t = "dict" /\ DOMAIN v.v # {})
           THEN \* len(None) at line 93, or branch["name"] of a key at line 102
                /\ apc' = "failed"
                /\ outcome' = Raise("TypeError", <<v.t>>)
                /\ trace' = tr
                /\ UNCHANGED <<saved, ind, branch_data, bi>>
           ELSE IF v.t = "dict" \/ Len(v.v) = 0
           THEN /\ Advance(ind, yearly_data, date_data, tr)
           ELSE /\ branch_data' = v
                /\ bi' = 1
                /\ apc' = "commits"
                /\ trace' = Append(tr, Fetch("repo_commit_list", repositories[ind],
                                             v.v[1].name))
                /\ UNCHANGED <<outcome, saved, ind>>
    /\ UNCHANGED <<repositories, IGNORED_REPOS, DEBUG_RUN, content, yearly_data, date_data,
                   folded, commit_lists>>
    /\ UNCHANGED <<dmvars, qvars>>

\* get_remote_graphql("repo_commit_list", ...) returns, without the isinstance test
\* of line 111: the loop of line 116 then takes the keys of a dict for commits.
CommitListReturns_NoGuard(v) ==
    /\ apc = "commits"
    /\ LET st == FoldCommits([yearly |-> yearly_data, dates |-> date_data, log |-> folded,
                              err |-> FALSE],
                             repositories[ind], branch_data.v[bi], v.v)
           tr == Append(trace, Returned("repo_commit_list", repositories[ind],
                                        branch_data.v[bi].name, v))
       IN  IF v.t # "list"
           THEN /\ apc' = "failed"
                /\ outcome' = Raise("AttributeError", <<"'str' object has no attribute 'get'">>)
                /\ trace' = tr
                /\ UNCHANGED <<saved, ind, branch_data, bi, yearly_data, date_data, folded>>
           ELSE /\ yearly_data' = st.yearly
                /\ date_data' = st.dates
                /\ folded' = st.log
                /\ IF st.err
                   THEN /\ apc' = "failed"
                        /\ outcome' = Raise("ValueError", <<"fromisoformat">>)
                        /\ trace' = tr
                        /\ UNCHANGED <<saved, ind, branch_data, bi>>
                   ELSE IF ~DEBUG_RUN
                   THEN /\ apc' = "sleep"
                        /\ trace' = Append(tr, Slept)
                        /\ UNCHANGED <<outcome, saved, ind, branch_data, bi>>
                   ELSE NextBranch(st.yearly, st.dates, tr)
    /\ UNCHANGED <<repositories, IGNORED_REPOS, DEBUG_RUN, content, commit_lists>>
    /\ UNCHANGED <<dmvars, qvars>>

\* get_remote_graphql("repo_commit_list", ...) returns.
CommitListReturns(v) ==
    /\ apc = "commits"
    /\ LET st == FoldCommits([yearly |-> yearly_data, dates |-> date_data, log |-> folded,
                              err |-> FALSE],
                             repositories[ind], branch_data.v[bi], v.v)
           tr == Append(trace, Returned("repo_commit_list", repositories[ind],
                                        branch_data.v[bi].name, v))
       IN  IF v.t # "list"
           THEN /\ NextBranch(yearly_data, date_data, tr)
                /\ UNCHANGED <<yearly_data, date_data, folded>>
           ELSE /\ yearly_data' = st.yearly
                /\ date_data' = st.dates
                /\ folded' = st.log
                /\ IF st.err
                   THEN /\ apc' = "failed"
                        /\ outcome' = Raise("ValueError", <<"fromisoformat">>)
                        /\ trace' = tr
                        /\ UNCHANGED <<saved, ind, branch_data, bi>>
                   ELSE IF ~DEBUG_RUN
                   THEN /\ apc' = "sleep"
                        /\ trace' = Append(tr, Slept)
                        /\ UNCHANGED <<outcome, saved, ind, branch_data, bi>>
                   ELSE NextBranch(st.yearly, st.dates, tr)
    /\ UNCHANGED <<repositories, IGNORED_REPOS, DEBUG_RUN, content, commit_lists>>
    /\ UNCHANGED <<dmvars, qvars>>

\* await sleep(0.4) is over.
SleepReturns ==
    /\ apc = "sleep"
    /\ NextBranch(yearly_data, date_data, trace)
    /\ UNCHANGED <<repositories, IGNORED_REPOS, DEBUG_RUN, content, yearly_data, date_data,
                   folded, commit_lists>>
    /\ UNCHANGED <<dmvars, qvars>>

\* get_remote_graphql raises: nothing in the pass catches it.
FetchRaises ==
    /\ apc \in {"branches", "commits"}
    /\ apc' = "failed"
    /\ outcome' = Raise("Exception", <<trace[Len(trace)].query, 401, "Unauthorized">>)
    /\ UNCHANGED <<repositories, IGNORED_REPOS, DEBUG_RUN, content, saved, ind, branch_data, bi,
                   yearly_data, date_data, trace, folded, commit_lists>>
    /\ UNCHANGED <<dmvars, qvars>>

\* A pair restored from the cache file of an earlier debug run.
RestoredPair == List(<<(2022 :> (1 :> ("Python" :> [add |-> 1, del |-> 1]))), <<>>>>)

IdleAgg ==
    /\ repositories = <<>> /\ IGNORED_REPOS = {} /\ DEBUG_RUN = FALSE
    /\ content = Null /\ saved = Null /\ apc = "off" /\ ind = 0
    /\ branch_data = List(<<>>) /\ bi = 0 /\ yearly_data = <<>> /\ date_data = <<>>
    /\ outcome = Pending /\ trace = <<>> /\ folded = <<>> /\ commit_lists = {}

IdleQuarter == sample = <<>> /\ bucket = <<>>

IdleDM ==
    InitDM([tasks |-> 0, pages |-> 0, lens |-> {}, depths |-> {}, cursors |-> {},
            shapes |-> {}, statuses |-> {}, calls |-> {}], 0)

InitAgg ==
    /\ repositories \in RepoLists
    /\ IGNORED_REPOS \in {{}, {"r1"}}
    /\ DEBUG_RUN \in BOOLEAN
    /\ content \in {Null} \cup {x \in {RestoredPair} : DEBUG_RUN}
    /\ saved = Null
    /\ apc = "start" /\ ind = 0 /\ branch_data = List(<<>>) /\ bi = 0
    /\ yearly_data = <<>> /\ date_data = <<>>
    /\ outcome = Pending /\ trace = <<>> /\ folded = <<>>
    /\ commit_lists = CommitLists
    /\ IdleDM /\ IdleQuarter

\* The commit histories the pass has fetched.
Fetches ==
    Len(SelectSeq(trace, LAMBDA e : e.ev = "fetch" /\ e.query = "repo_commit_list"))

NextAgg ==
    \/ CalculateCommitData
    \/ \E v \in {b \in BranchLists : Fetches + Len(b.v) <= MaxFetches} : BranchListReturns(v)
    \/ \E v \in commit_lists : CommitListReturns(v)
    \/ SleepReturns
    \/ FetchRaises

SpecAgg == InitAgg /\ [][NextAgg]_vars

\* The pass over histories that hold a commit without a date that parses.
InitDates ==
    /\ repositories \in {r \in RepoLists : Len(r) <= 2 /\ r[1].name = "r1"}
    /\ IGNORED_REPOS = {}
    /\ DEBUG_RUN \in BOOLEAN
    /\ content = Null /\ saved = Null
    /\ apc = "start" /\ ind = 0 /\ branch_data = List(<<>>) /\ bi = 0
    /\ yearly_data = <<>> /\ date_data = <<>>
    /\ outcome = Pending /\ trace = <<>> /\ folded = <<>>
    /\ commit_lists = UndatedLists \cup {List(<<CommitOf("c")>>)}
    /\ IdleDM /\ IdleQuarter

SpecDates == InitDates /\ [][NextAgg]_vars

(***************************************************************************)
(* The date bucket as a function of the commit date: every month of two    *)
(* years, days that do and days that do not exist, with and without the    *)
(* time of day.                                                            *)
(***************************************************************************)
SampleYears == {2023, 2024}

SampleDays == {1, 15, 29, 31}

InitQuarter ==
    /\ sample \in {[year |-> y, month |-> m, day |-> d,
                    commit |-> [oid |-> "a", additions |-> 1, deletions |-> 1,
                                committedDate |-> IsoDate(y, m, d) \o suffix]] :
                     y \in SampleYears, m \in 1..12, d \in SampleDays,
                     suffix \in {<<>>, TimeOfDay}}
    /\ bucket = <<>>
    /\ IdleDM /\ IdleAgg

\* Lines 117-123 applied to the sample.
BucketSample ==
    /\ bucket = <<>>
    /\ bucket' = Bucket(sample.commit)
    /\ UNCHANGED <<sample, dmvars, aggvars>>

NextQuarter == BucketSample

SpecQuarter == InitQuarter /\ [][NextQuarter]_vars

(***************************************************************************)
(* The specifications of DownloadManager.                                  *)
(***************************************************************************)
AllShapes == {"page", "null_nodes", "null_leaf", "errors", "empty"}

\* Two coroutines, each calling get_remote_graphql once, overlapping or one
\* after the other.
Init ==
    /\ InitDM([tasks |-> NumTasks, pages |-> CallPages, lens |-> {1}, depths |-> {1},
            cursors |-> {Str("a")}, shapes |-> {"page", "errors"}, statuses |-> {401},
            calls |-> {c \in GraphCalls : c.kwargs # [owner |-> "o", name |-> "r2"]}],
           Call502)
    /\ IdleAgg /\ IdleQuarter

\* One coroutine, every shape of body.
InitPages ==
    /\ InitDM([tasks |-> 1, pages |-> MaxPages, lens |-> 0..MaxPageLen, depths |-> 0..MaxDepth,
            cursors |-> Cursors, shapes |-> AllShapes, statuses |-> {401, 404},
            calls |-> GraphCalls],
           Pages502)
    /\ IdleAgg /\ IdleQuarter

\* One coroutine, a gateway that may fail more often than the retries last.
InitRetry ==
    /\ InitDM([tasks |-> 1, pages |-> RetryPages, lens |-> {1}, depths |-> {0, 1},
            cursors |-> Cursors, shapes |-> {"page", "errors", "empty"}, statuses |-> {401, 404},
            calls |-> GraphCalls],
           MaxGateway)
    /\ IdleAgg /\ IdleQuarter

\* Coroutines that load and look up simple resources.
InitResources ==
    /\ InitDM([tasks |-> ResTasks, pages |-> 1, lens |-> {1}, depths |-> {0},
            cursors |-> Cursors, shapes |-> {"page"}, statuses |-> {401},
            calls |-> GraphCalls],
           0)
    /\ IdleAgg /\ IdleQuarter

Next ==
    \/ \E t \in Tasks : \E c \in lim.calls : GetRemoteGraphql(t, c)
    \/ \E t \in Tasks : \E b \in ServerBodies(t) : Respond200(t, b)
    \/ \E t \in Tasks : Respond502(t)
    \/ \E t \in Tasks : \E status \in lim.statuses : RespondError(t, status)

NextResources ==
    \/ \E t \in Tasks : \E rs \in ResourceLoads : LoadRemoteResources(t, rs)
    \/ \E t \in Tasks : \E r \in ResourceResponses : GetResponds(t, r)
    \/ \E t \in Tasks : \E resource \in Resources : GetRemoteJson(t, resource)
    \/ \E t \in Tasks : \E resource \in Resources : GetRemoteYaml(t, resource)
    \/ \E t \in Tasks : CloseRemoteResources(t)

Spec == Init /\ [][Next]_vars

SpecPages == InitPages /\ [][Next]_vars

SpecRetry == InitRetry /\ [][Next]_vars

SpecResources == InitResources /\ [][NextResources]_vars

(***************************************************************************)
(* The aggregation pass running on DownloadManager: the k-th call of       *)
(* get_remote_graphql the pass makes is the call of task k, and what the   *)
(* pass is handed is what that call returned or raised.  The cache starts  *)
(* empty; the endpoint serves branches and commits, bodies of other        *)
(* shapes, and failures.                                                   *)
(***************************************************************************)
CurrentTask == Cardinality({k \in DOMAIN trace : trace[k].ev = "fetch"})

\* The keyword arguments of lines 92 and 98-104.
KwargsOf(e) ==
    IF e.query = "repo_branch_list"
    THEN [owner |-> e.owner, name |-> e.name]
    ELSE [owner |-> e.owner, name |-> e.name, branch |-> e.branch, id |-> "u1"]

\* Lines 92 and 98: the pass calls get_remote_graphql.
PassCalls ==
    /\ apc \in {"branches", "commits"}
    /\ CurrentTask \in Tasks
    /\ pc[CurrentTask] = "idle"
    /\ GetRemoteGraphql(CurrentTask, [query |-> trace[Len(trace)].query,
                                      kwargs |-> KwargsOf(trace[Len(trace)])])

\* The pages of branches and of commits the endpoint serves to task t.
DataBodies(t) ==
    IF apc = "off" THEN {}
    ELSE IF call[t].query = "repo_branch_list"
    THEN {[shape |-> "page", depth |-> 2, ns |-> bl.v, more |-> FALSE, cur |-> Null] :
            bl \in {b \in BranchLists :
                       CurrentTask + Len(b.v) + (Len(repositories) - ind) <= lim.tasks}}
    ELSE IF call[t].query = "repo_commit_list"
    THEN {[shape |-> "page", depth |-> 2, ns |-> ns, more |-> m, cur |-> Str("a")] :
            ns \in (IF PagesSeen(t) = 0
                    THEN {<<CommitOf("a"), CommitOf("b")>>, <<>>}
                    ELSE {<<CommitOf("c")>>}),
            m \in {x \in BOOLEAN : x => PagesSeen(t) + 1 < lim.pages}}
    ELSE {}

\* Line 92: the await of the branch list evaluates to what the call returned.
BranchListDelivered ==
    /\ apc = "branches"
    /\ pc[CurrentTask] = "returned"
    /\ BranchListReturns(ret[CurrentTask].value)

\* Lines 98-104: the await of the commit list evaluates to what the call returned.
CommitListDelivered ==
    /\ apc = "commits"
    /\ pc[CurrentTask] = "returned"
    /\ CommitListReturns(ret[CurrentTask].value)

\* The exception of the call taken for an empty result.
FetchPropagates_Swallow ==
    /\ apc \in {"branches", "commits"}
    /\ pc[CurrentTask] = "raised"
    /\ IF apc = "branches" THEN BranchListReturns(List(<<>>)) ELSE CommitListReturns(List(<<>>))

\* The call raised: nothing in update_data_with_commit_stats or in
\* calculate_commit_data catches the exception.
FetchPropagates ==
    /\ apc \in {"branches", "commits"}
    /\ pc[CurrentTask] = "raised"
    /\ apc' = "failed"
    /\ outcome' = ret[CurrentTask]
    /\ UNCHANGED <<repositories, IGNORED_REPOS, DEBUG_RUN, content, saved, ind, branch_data, bi,
                   yearly_data, date_data, trace, folded, commit_lists>>
    /\ UNCHANGED <<dmvars, qvars>>

\* The gateway may fail, more often than the retries last, in the passes
\* over one repository.
DrivenRepos ==
    {r \in RepoLists : Len(r) <= 2 /\ \A i \in DOMAIN r : r[i].name \in {"r1", "r2"}}

InitDriven ==
    /\ repositories \in DrivenRepos
    /\ IGNORED_REPOS = {}
    /\ DEBUG_RUN \in BOOLEAN
    /\ content = Null /\ saved = Null
    /\ apc = "start" /\ ind = 0 /\ branch_data = List(<<>>) /\ bi = 0
    /\ yearly_data = <<>> /\ date_data = <<>>
    /\ outcome = Pending /\ trace = <<>> /\ folded = <<>>
    /\ commit_lists = {}
    /\ InitDM([tasks |-> MaxCalls, pages |-> 2, lens |-> {}, depths |-> {},
               cursors |-> {Str("a")}, shapes |-> {"null_nodes", "null_leaf", "errors"}, statuses |-> {401},
               calls |-> {}],
              IF Len(repositories) = 1 THEN MaxGateway ELSE 0)
    /\ IdleQuarter

\* The gateway fails on the first call of the pass only.
NextDriven ==
    \/ CalculateCommitData
    \/ PassCalls
    \/ \E t \in Tasks : \E b \in ServerBodies(t) \cup DataBodies(t) : Respond200(t, b)
    \/ \E t \in {1} : Respond502(t)
    \/ \E t \in Tasks : \E status \in lim.statuses : RespondError(t, status)
    \/ BranchListDelivered
    \/ CommitListDelivered
    \/ FetchPropagates
    \/ SleepReturns

SpecDriven == InitDriven /\ [][NextDriven]_vars

(***************************************************************************)
(* Helpers the properties use.                                             *)
(***************************************************************************)
IsGraphCall(t) == call[t].op = "get_remote_graphql"

SameKey(t, u) ==
    /\ IsGraphCall(t) /\ IsGraphCall(u)
    /\ call[t].query = call[u].query /\ call[t].kwargs = call[u].kwargs

\* The responses of status st that task t has received, in order.
Got(t, st) == SelectSeq(recv[t], LAMBDA r : r.status = st)

RECURSIVE Flatten(_)
Flatten(ss) == IF ss = <<>> THEN <<>> ELSE Head(ss).ns \o Flatten(Tail(ss))

\* Task u was called after task t had finished.
After(t, u) == call[u].op # "none" /\ t \in before[u]

\* Tasks t and u were both called and neither had finished when the other started.
Overlap(t, u) ==
    /\ t # u /\ call[t].op # "none" /\ call[u].op # "none"
    /\ t \notin before[u] /\ u \notin before[t]

\* t is a get_remote_graphql call that returned and that every other call of
\* its key follows; u is a later call of the same key that has finished.
Sequential(t, u) ==
    /\ t # u /\ SameKey(t, u)
    /\ pc[t] = "returned" /\ Finished(u) /\ After(t, u)
    /\ \A w \in Tasks \ {t} : SameKey(t, w) => After(t, w)

(***************************************************************************)
(* C1 as stated: two sequential get_remote_graphql calls with the same     *)
(* query and arguments issue exactly one network call between them, and    *)
(* the second returns the value of the first.                              *)
(***************************************************************************)
C1_OneNetworkCall ==
    \A t, u \in Tasks :
        Sequential(t, u) =>
            /\ Len(sent[t]) + Len(sent[u]) = 1
            /\ ret[u] = ret[t]

(***************************************************************************)
(* C1 amended: of two sequential get_remote_graphql calls with the same    *)
(* query and arguments the first performs the one fetch of the key (one    *)
(* request per page and per 502 retry, one cache write) and returns V; the *)
(* second issues no request and returns the same V.                        *)
(***************************************************************************)
C1_SecondCallFromCache ==
    \A t, u \in Tasks :
        Sequential(t, u) =>
            /\ sent[u] = <<>>
            /\ ret[u] = ret[t]
            /\ ret[u] = Return(cache[KeyOfTask(t)])
            /\ Len(sent[t]) >= 1
            /\ Len(sent[t]) = Len(Got(t, 200)) + Len(Got(t, 502))
            /\ writes[KeyOfTask(t)] = 1

C1_Witness ==
    \E t, u \in Tasks :
        /\ Sequential(t, u)
        /\ Len(sent[t]) = 2 /\ Len(Got(t, 200)) = 2
        /\ ret[u] = Return(List(<<Num(11), Num(21)>>))

(***************************************************************************)
(* C2: a paginated fetch whose source yields k pages, the first k-1 with   *)
(* hasNextPage true and the last with hasNextPage false, returns the nodes *)
(* of all k pages concatenated in arrival order and issues k requests (and *)
(* one more per 502 retried on the way).                                   *)
(***************************************************************************)
C2_PaginatedConcat ==
    \A t \in Tasks :
        LET pages == Got(t, 200)
            k == Len(pages)
        IN  ( /\ IsGraphCall(t) /\ HasPagination(call[t].query)
              /\ pc[t] = "returned" /\ sent[t] # <<>>
              /\ \A i \in 1..k : pages[i].shape = "page" )
            => /\ k >= 1
               /\ \A i \in 1..(k - 1) : pages[i].more
               /\ ~pages[k].more
               /\ ret[t] = Return(List(Flatten(pages)))
               /\ Len(sent[t]) = k + Len(Got(t, 502))
               /\ recv[t] = pages => Len(sent[t]) = k

C2_Witness ==
    \E t \in Tasks :
        /\ IsGraphCall(t) /\ pc[t] = "returned"
        /\ Len(sent[t]) = 3 /\ Len(recv[t]) = 3
        /\ \A i \in 1..3 : recv[t][i].shape = "page"
        /\ ret[t] = Return(List(<<Num(11), Num(12), Num(21), Num(22), Num(31)>>))

(***************************************************************************)
(* C3: a single graph query made with the default bound accepts a 200      *)
(* that follows 9 (or any number up to 10 of) 502 responses and returns    *)
(* that response; after 11 consecutive 502 responses it fails with an      *)
(* error, having retried exactly 10 times (11 requests); it never issues   *)
(* more than 11 requests.                                                  *)
(***************************************************************************)
\* The 502 responses at the end of what task t has received.
RECURSIVE Trailing502(_)
Trailing502(rs) ==
    IF rs = <<>> \/ rs[Len(rs)].status # 502 THEN 0
    ELSE 1 + Trailing502(SubSeq(rs, 1, Len(rs) - 1))

IsSingleQuery(t) == IsGraphCall(t) /\ ~HasPagination(call[t].query) /\ sent[t] # <<>>

C3_RetryBound ==
    \A t \in Tasks :
        /\ IsSingleQuery(t) =>
             /\ Len(sent[t]) <= 11
             /\ Awaiting(t) => /\ Len(sent[t]) = Len(Got(t, 502)) + 1
                               /\ retries_count[t] = 10 - Len(Got(t, 502))
             /\ (Finished(t) /\ recv[t][Len(recv[t])].status = 200) =>
                    /\ Len(Got(t, 502)) <= 10
                    /\ Len(sent[t]) = Len(Got(t, 502)) + 1
                    /\ \E b \in {"mutation", "errors"} :
                          /\ recv[t][Len(recv[t])].shape = b
                          /\ ret[t] = Return(BodyOf([shape |-> b, depth |-> 0]))
             /\ (Finished(t) /\ recv[t][Len(recv[t])].status = 502) =>
                    /\ Len(Got(t, 502)) = 11
                    /\ Len(sent[t]) = 11
                    /\ ret[t] = Raise("Exception", <<call[t].query, 502, "Bad Gateway">>)
             /\ Len(Got(t, 502)) = 11 => pc[t] = "raised"
        \* every page request of a traversal is such a query
        /\ IsGraphCall(t) =>
             /\ Trailing502(recv[t]) <= 11
             /\ Awaiting(t) => retries_count[t] = 10 - Trailing502(recv[t])
             /\ Trailing502(recv[t]) = 11 => pc[t] = "raised"

\* 502 eleven times in a row: the query fails on its 11th request.
C3_Witness ==
    \E t \in Tasks :
        /\ IsSingleQuery(t) /\ pc[t] = "raised"
        /\ Len(sent[t]) = 11 /\ Len(Got(t, 502)) = 11

\* 502 nine times and 200 on the 10th attempt: the query returns.
C3_WitnessTenth ==
    \E t \in Tasks :
        /\ IsSingleQuery(t) /\ pc[t] = "returned"
        /\ Len(sent[t]) = 10 /\ Len(Got(t, 502)) = 9 /\ recv[t][10].status = 200

(***************************************************************************)
(* C9: a simple resource lookup classifies the stored response by its      *)
(* status: 200 gives what the decoder makes of the body (safe_load when    *)
(* supplied, else JSON), 201 and 202 give null without an error, any other *)
(* status raises an error that carries the URL, the status code and the    *)
(* body; the lookup issues no request and leaves the cache as it was.      *)
(***************************************************************************)
IsLookup(op) == op \in {"get_remote_json", "get_remote_yaml"}

C9_LookupClassifies ==
    [][\A t \in Tasks :
         ( /\ pc[t] = "idle" /\ pc'[t] # "idle" /\ IsLookup(call'[t].op)
           /\ call'[t].resources[1] \in DOMAIN cache )
         => LET res == cache[call'[t].resources[1]].v
                yaml == call'[t].op = "get_remote_yaml"
            IN  /\ cache' = cache /\ sent' = sent /\ writes' = writes
                /\ Finished(t)'
                /\ (res.status_code = 200 /\ res.content = JsonContent) =>
                       ret'[t] = Return(Dict([a |-> Num(1)]))
                /\ (res.status_code = 200 /\ res.content = YamlContent /\ yaml) =>
                       ret'[t] = Return(Dict([a |-> Num(1)]))
                /\ (res.status_code = 200 /\ res.content = YamlContent /\ ~yaml) =>
                       ret'[t] = Raise("JSONDecodeError", <<YamlContent>>)
                /\ res.status_code \in {201, 202} => ret'[t] = Return(Null)
                /\ res.status_code \notin {200, 201, 202} =>
                       ret'[t] = Raise("Exception", <<res.url, res.status_code, res.content>>)
      ]_vars

\* A lookup of a resource stored with status 404 has raised the error.
C9_Witness ==
    \E t, u \in Tasks :
        /\ call[t].op = "load_remote_resources" /\ pc[t] = "returned"
        /\ call[u].op = "get_remote_json" /\ call[u].resources = <<"linguist">>
        /\ "linguist" \in DOMAIN cache /\ cache["linguist"].v.status_code = 404
        /\ ret[u] = Raise("Exception", <<ResourceUrl("linguist"), 404, "Not Found">>)

(***************************************************************************)
(* C10: when two get_remote_graphql calls with the same query and          *)
(* arguments overlap, at most one of them fetches and the cache entry of   *)
(* the key is written at most once.                                        *)
(***************************************************************************)
C10_OverlapFetchesOnce ==
    \A t, u \in Tasks :
        (Overlap(t, u) /\ SameKey(t, u)) =>
            /\ ~(sent[t] # <<>> /\ sent[u] # <<>>)
            /\ KeyOfTask(t) \in DOMAIN writes => writes[KeyOfTask(t)] <= 1

(***************************************************************************)
(* Helpers the properties of the aggregation pass use.  They read the      *)
(* trace of what the pass fetched and was handed, the repositories it was  *)
(* given and the dates the commits of the model were written from.         *)
(***************************************************************************)
Returns(query) == SelectSeq(trace, LAMBDA e : e.ev = "return" /\ e.query = query)

PositionOf(name) == CHOOSE i \in DOMAIN repositories : repositories[i].name = name

RepoNamed(name) == repositories[PositionOf(name)]

HasLanguage(name, lang) ==
    /\ RepoNamed(name).primaryLanguage.t # "null"
    /\ RepoNamed(name).primaryLanguage.v.name = lang

LangNames ==
    {RepoPool[i].primaryLanguage.v.name :
        i \in {j \in DOMAIN RepoPool : RepoPool[j].primaryLanguage.t # "null"}}

FactOf(commit) == CHOOSE f \in CommitFacts : f.commit = commit

\* The commits of the commit lists the pass was handed, with repository and branch.
RECURSIVE Handed(_)
Handed(es) ==
    IF es = <<>> THEN <<>>
    ELSE LET e == Head(es) IN
         (IF e.value.t = "list"
          THEN [i \in 1..Len(e.value.v) |->
                    [name |-> e.name, branch |-> e.branch, commit |-> e.value.v[i]]]
          ELSE <<>>) \o Handed(Tail(es))

HandedCommits == Handed(Returns("repo_commit_list"))

RECURSIVE Total(_, _)
Total(es, field) ==
    IF es = <<>> THEN 0 ELSE Head(es).commit[field] + Total(Tail(es), field)

\* The handed commits of repositories of language lang dated in the quarter.
InKey(year, quarter, lang) ==
    SelectSeq(HandedCommits, LAMBDA e :
        /\ HasLanguage(e.name, lang)
        /\ FactOf(e.commit).year = year /\ FactOf(e.commit).quarter = quarter)

HasKey(year, quarter, lang) ==
    /\ year \in DOMAIN yearly_data
    /\ quarter \in DOMAIN yearly_data[year]
    /\ lang \in DOMAIN yearly_data[year][quarter]

PresentKeys ==
    UNION {UNION {{<<y, q, l>> : l \in DOMAIN yearly_data[y][q]} : q \in DOMAIN yearly_data[y]} :
              y \in DOMAIN yearly_data}

FactKeys == {<<f.year, f.quarter, l>> : f \in CommitFacts, l \in LangNames}

\* yearly_data holds exactly the sums of the handed commits, key by key.
YearlySums ==
    /\ \A k \in PresentKeys \cup FactKeys :
           LET es == InKey(k[1], k[2], k[3]) IN
           IF es = <<>> THEN ~HasKey(k[1], k[2], k[3])
           ELSE /\ HasKey(k[1], k[2], k[3])
                /\ yearly_data[k[1]][k[2]][k[3]] =
                       [add |-> Total(es, "additions"), del |-> Total(es, "deletions")]
    /\ \A y \in DOMAIN yearly_data :
           /\ DOMAIN yearly_data[y] # {}
           /\ \A q \in DOMAIN yearly_data[y] : DOMAIN yearly_data[y][q] # {}

\* date_data holds every handed commit under its repository, branch and oid.
DatesRecorded ==
    \A i \in DOMAIN HandedCommits :
        LET e == HandedCommits[i] IN
        /\ e.name \in DOMAIN date_data
        /\ e.branch \in DOMAIN date_data[e.name]
        /\ e.commit.oid \in DOMAIN date_data[e.name][e.branch]
        /\ date_data[e.name][e.branch][e.commit.oid] = e.commit.committedDate

\* date_data holds nothing but handed commits.
DatesHanded ==
    \A n \in DOMAIN date_data : \A b \in DOMAIN date_data[n] :
        \A oid \in DOMAIN date_data[n][b] :
            \E i \in DOMAIN HandedCommits :
                /\ HandedCommits[i].name = n /\ HandedCommits[i].branch = b
                /\ HandedCommits[i].commit.oid = oid

EmptyBranchList(e) ==
    e.ev = "return" /\ e.query = "repo_branch_list" /\ e.value = List(<<>>)

Malformed(e) == e.ev = "return" /\ e.query = "repo_commit_list" /\ e.value.t # "list"

CommitsHanded(e) ==
    e.ev = "return" /\ e.query = "repo_commit_list" /\ e.value.t = "list" /\ e.value.v # <<>>

\* The repositories after the one named that are not ignored.
LaterKept(name) ==
    {k \in (PositionOf(name) + 1)..Len(repositories) :
        repositories[k].name \notin IGNORED_REPOS}

\* After trace[k] the pass went on to the first repository kept after the one
\* named, or ended with the pair when none was left.
OnToNextRepo(k, name) ==
    IF LaterKept(name) = {}
    THEN k = Len(trace) /\ apc = "done" /\ outcome.kind = "return"
    ELSE LET nxt == CHOOSE i \in LaterKept(name) : \A j \in LaterKept(name) : i <= j
         IN  /\ k < Len(trace)
             /\ trace[k + 1] = Fetch("repo_branch_list", repositories[nxt], "")

\* The branch list the pass was handed for the repository named.
BranchesOf(name) ==
    LET rs == Returns("repo_branch_list")
    IN  rs[CHOOSE i \in DOMAIN rs : rs[i].name = name].value.v

\* After trace[k], about a branch of the repository named, the pass went on
\* to the next branch of that repository, or to the next repository.
OnToNextBranch(k, name, branch) ==
    LET bs == BranchesOf(name)
        p == CHOOSE i \in DOMAIN bs : bs[i].name = branch
    IN  IF p < Len(bs)
        THEN /\ k < Len(trace)
             /\ trace[k + 1] = Fetch("repo_commit_list", RepoNamed(name), bs[p + 1].name)
        ELSE OnToNextRepo(k, name)

\* The pass computed its pair (it did not restore one).
Computed == ~(DEBUG_RUN /\ content.t # "null")

(***************************************************************************)
(* C4: at every point of an aggregation pass, and in the pair it returns,  *)
(* yearly_data[year][quarter][language] holds add = the sum of additions   *)
(* and del = the sum of deletions of the folded commits of repositories of *)
(* that language dated in that year and quarter, an entry starting from    *)
(* {add: 0, del: 0}; there is no entry for a key without such a commit.    *)
(***************************************************************************)
C4_QuarterSums ==
    /\ YearlySums
    /\ (apc = "done" /\ Computed) => outcome = Return(List(<<yearly_data, date_data>>))

\* Commits a (+10 -2) and b (+5 -1) of one branch gave {add: 15, del: 3}.
C4_Witness ==
    /\ apc = "done" /\ Computed
    /\ Len(InKey(2023, 2, "Python")) = 2
    /\ HasKey(2023, 2, "Python")
    /\ yearly_data[2023][2]["Python"] = [add |-> 15, del |-> 3]

(***************************************************************************)
(* C5: for an ignored repository the pass issues no fetch and records      *)
(* nothing; when the branch list of a repository comes back empty the step *)
(* leaves both structures as they are and raises nothing, no commit        *)
(* history of that repository is fetched, and the pass goes on to the next *)
(* repository that is not ignored (or returns when there is none).         *)
(***************************************************************************)
C5_SkippedRepositories ==
    /\ [](\A i \in DOMAIN repositories :
            repositories[i].name \in IGNORED_REPOS =>
                /\ \A k \in DOMAIN trace : trace[k].name # repositories[i].name
                /\ repositories[i].name \notin DOMAIN date_data)
    /\ [](\A k \in DOMAIN trace :
            EmptyBranchList(trace[k]) =>
                /\ trace[k].name \notin DOMAIN date_data
                /\ \A j \in DOMAIN trace :
                       ~(trace[j].query = "repo_commit_list" /\ trace[j].name = trace[k].name)
                /\ OnToNextRepo(k, trace[k].name))
    /\ [][(/\ apc = "branches"
           /\ Len(trace') > Len(trace)
           /\ EmptyBranchList(trace'[Len(trace) + 1]))
          => (/\ yearly_data' = yearly_data
              /\ date_data' = date_data
              /\ outcome'.kind # "raise")]_vars

\* A pass over an ignored repository, one without branches and one with
\* commits has returned.
C5_Witness ==
    /\ apc = "done" /\ outcome.kind = "return"
    /\ \E i \in DOMAIN repositories : repositories[i].name \in IGNORED_REPOS
    /\ \E k \in DOMAIN trace : \E j \in DOMAIN trace :
           /\ k < j /\ EmptyBranchList(trace[k]) /\ CommitsHanded(trace[j])
           /\ trace[j].name \in DOMAIN date_data

(***************************************************************************)
(* C6: when the commit list of a branch comes back as something that is    *)
(* not a list, the step changes neither structure and raises nothing, the  *)
(* branch has no entry in date_data, and the pass goes on to the next      *)
(* branch or repository; the commits handed for every other branch and     *)
(* repository are all in date_data and summed in yearly_data.              *)
(***************************************************************************)
C6_MalformedBranchSkipped ==
    /\ [](\A k \in DOMAIN trace :
            Malformed(trace[k]) =>
                /\ (trace[k].name \in DOMAIN date_data =>
                        trace[k].branch \notin DOMAIN date_data[trace[k].name])
                /\ OnToNextBranch(k, trace[k].name, trace[k].branch))
    /\ [](DatesRecorded /\ YearlySums)
    /\ [][(/\ apc = "commits"
           /\ Len(trace') > Len(trace)
           /\ Malformed(trace'[Len(trace) + 1]))
          => (/\ yearly_data' = yearly_data
              /\ date_data' = date_data
              /\ outcome'.kind # "raise")]_vars

\* The first branch of a repository came back malformed, its second branch
\* and a later repository came back with commits, and the pass has returned.
C6_Witness ==
    /\ apc = "done" /\ outcome.kind = "return"
    /\ \E k, j, m \in DOMAIN trace :
           /\ k < j /\ j < m
           /\ Malformed(trace[k]) /\ CommitsHanded(trace[j]) /\ CommitsHanded(trace[m])
           /\ trace[j].name = trace[k].name /\ trace[m].name # trace[k].name
           /\ trace[j].branch \in DOMAIN date_data[trace[j].name]
           /\ trace[m].name \in DOMAIN date_data

(***************************************************************************)
(* C7: date_data[repository][branch][oid] = committedDate for every commit *)
(* the pass folded, whatever the primary language of the repository, and   *)
(* holds nothing else; folding the commits of a repository whose           *)
(* primaryLanguage is null leaves yearly_data unchanged.                   *)
(***************************************************************************)
C7_DateIndexAnyLanguage ==
    /\ [](DatesRecorded /\ DatesHanded)
    /\ [][(apc = "commits" /\ repositories[ind].primaryLanguage.t = "null")
          => yearly_data' = yearly_data]_vars

\* The commits of a repository without a primary language are in date_data
\* and yearly_data is empty.
C7_Witness ==
    /\ apc = "done" /\ Computed
    /\ yearly_data = <<>>
    /\ \E i \in DOMAIN HandedCommits :
           LET e == HandedCommits[i] IN
           /\ RepoNamed(e.name).primaryLanguage.t = "null"
           /\ e.name \in DOMAIN date_data
           /\ e.branch \in DOMAIN date_data[e.name]
           /\ date_data[e.name][e.branch][e.commit.oid] = e.commit.committedDate

(***************************************************************************)
(* C8: a commit dated on a day of the calendar is put in the year of its   *)
(* date and in quarter 1 for January to March, 2 for April to June, 3 for  *)
(* July to September and 4 for October to December: 2023-04-15 in 2023/2,  *)
(* 2023-12-31 in quarter 4, 2023-01-01 in quarter 1.                       *)
(***************************************************************************)
C8_QuarterOfMonth ==
    LET m == sample.month
        exists == \/ sample.day <= 28
                  \/ sample.day = 29 /\ (m # 2 \/ sample.year = 2024)
                  \/ sample.day = 30 /\ m # 2
                  \/ sample.day = 31 /\ m \in {1, 3, 5, 7, 8, 10, 12}
        expected == IF m \in {1, 2, 3} THEN 1
                    ELSE IF m \in {4, 5, 6} THEN 2
                    ELSE IF m \in {7, 8, 9} THEN 3
                    ELSE 4
    IN  (bucket # <<>> /\ exists) =>
            /\ bucket.kind = "ok"
            /\ bucket.curr_year = sample.year
            /\ bucket.quarter = expected
            /\ bucket.quarter \in 1..4
            /\ (sample.year = 2023 /\ m = 4 /\ sample.day = 15) =>
                   (bucket.curr_year = 2023 /\ bucket.quarter = 2)
            /\ (sample.year = 2023 /\ m = 12 /\ sample.day = 31) => bucket.quarter = 4
            /\ (sample.year = 2023 /\ m = 1 /\ sample.day = 1) => bucket.quarter = 1

\* The commit dated 2023-12-31 has been put in quarter 4 of 2023.
C8_Witness ==
    /\ bucket # <<>>
    /\ sample.year = 2023 /\ sample.month = 12 /\ sample.day = 31
    /\ bucket.kind = "ok" /\ bucket.curr_year = 2023 /\ bucket.quarter = 4

(***************************************************************************)
(* C11: the cache is write-once per key: no step of load_remote_resources, *)
(* get_remote_graphql, get_remote_json, get_remote_yaml or                 *)
(* close_remote_resources removes a key of the cache or changes the value  *)
(* stored under it, and a lookup that returns a value returns the one      *)
(* decoded from the entry the key got first.                               *)
(***************************************************************************)
C11_WriteOnce ==
    [][\A k \in DOMAIN cache : k \in DOMAIN cache' /\ cache'[k] = cache[k]]_vars

\* The call of task t ended with the exception of _fetch_graphql_query: the
\* last response it received was not a 200.
TransportFailed(t) ==
    /\ pc[t] = "raised"
    /\ recv[t] # <<>>
    /\ recv[t][Len(recv[t])].status # 200

(***************************************************************************)
(* C12: when a branch-list or commit-history call of the pass ends with    *)
(* the error of a failed request (a status that is neither 200 nor 502, or *)
(* a 502 with no retry left), the next step of the pass is its end with    *)
(* that very error: calculate_commit_data returns no pair, persists        *)
(* nothing, changes neither structure any more and issues no further call. *)
(***************************************************************************)
C12_TransportFailureAborts ==
    /\ [](\A t \in Tasks :
            TransportFailed(t) =>
                /\ t = CurrentTask
                /\ apc \in {"branches", "commits", "failed"}
                /\ outcome.kind # "return"
                /\ saved = Null
                /\ apc = "failed" => outcome = ret[t])
    /\ [][(apc # "failed" /\ \E t \in Tasks : TransportFailed(t))
          => (/\ apc' = "failed"
              /\ outcome' = ret[CurrentTask]
              /\ outcome'.kind = "raise"
              /\ outcome'.value.exc = "Exception"
              /\ yearly_data' = yearly_data /\ date_data' = date_data)]_vars
    /\ [][apc = "failed" => FALSE]_vars

\* A pass that had already recorded commits has ended with the error of a
\* request answered 401.
C12_Witness ==
    /\ apc = "failed"
    /\ date_data # <<>>
    /\ \E t \in Tasks :
           /\ TransportFailed(t)
           /\ recv[t][Len(recv[t])].status = 401
           /\ outcome = Raise("Exception", <<call[t].query, 401, "Unauthorized">>)

\* A pass has ended with the error of the eleventh 502 in a row.
C12_WitnessExhausted ==
    /\ apc = "failed"
    /\ Len(recv[1]) = RetriesDefault + 1
    /\ \A i \in DOMAIN recv[1] : recv[1][i].status = 502
    /\ outcome = Raise("Exception", <<"repo_branch_list", 502, "Bad Gateway">>)

\* The handed commits the pass has recorded in date_data / has not.
Recorded(e) ==
    /\ e.name \in DOMAIN date_data
    /\ e.branch \in DOMAIN date_data[e.name]
    /\ e.commit.oid \in DOMAIN date_data[e.name][e.branch]

Dated(commit) == \E f \in CommitFacts : f.commit = commit

\* Every handed commit with a date is recorded and summed, no other is.
UndatedLeftOut ==
    /\ \A i \in DOMAIN HandedCommits :
           Recorded(HandedCommits[i]) <=> Dated(HandedCommits[i].commit)
    /\ \A y \in DOMAIN yearly_data : \A q \in DOMAIN yearly_data[y] :
           \A l \in DOMAIN yearly_data[y][q] :
               LET es == SelectSeq(HandedCommits, LAMBDA e :
                             /\ Dated(e.commit) /\ HasLanguage(e.name, l)
                             /\ FactOf(e.commit).year = y /\ FactOf(e.commit).quarter = q)
               IN  yearly_data[y][q][l] =
                       [add |-> Total(es, "additions"), del |-> Total(es, "deletions")]

(***************************************************************************)
(* C13: a commit without a parseable date (no committedDate, no date in    *)
(* it, or a date-shaped text that names no day of the calendar) is         *)
(* skipped: handing it to the pass raises no error, it is in neither       *)
(* structure, and the dated commits around it, of later branches and of    *)
(* later repositories are all recorded and summed.                         *)
(***************************************************************************)
C13_UnparseableSkipped ==
    /\ outcome.kind = "raise" => outcome.value.exc = "Exception"
    /\ UndatedLeftOut

(***************************************************************************)
(* The part of C13 the code keeps: a commit with no committedDate or with  *)
(* no date-shaped text in it is skipped as C13 says.                       *)
(***************************************************************************)
C13_NoDateShapeSkipped ==
    (\A i \in DOMAIN HandedCommits : HandedCommits[i].commit.oid \notin {"f", "g"}) =>
        C13_UnparseableSkipped

\* A history with a commit that has no committedDate was folded: its two
\* dated commits are recorded, the pass has returned.
C13_WitnessSkipped ==
    /\ apc = "done"
    /\ \E i \in DOMAIN HandedCommits :
           /\ HandedCommits[i].commit.oid = "d"
           /\ ~Recorded(HandedCommits[i])
           /\ "a" \in DOMAIN date_data[HandedCommits[i].name][HandedCommits[i].branch]
           /\ "b" \in DOMAIN date_data[HandedCommits[i].name][HandedCommits[i].branch]

(***************************************************************************)
(* C14: the request of a graph query that is answered with a status other  *)
(* than 200 and 502 is the last one of the call: the call issues no        *)
(* request in that step, whatever is left of retries_count, and ends with  *)
(* the error naming the query, the status and the body; a request is       *)
(* issued again only in answer to a 502, and every request is answered     *)
(* once.                                                                   *)
(***************************************************************************)
C14_OtherStatusNotRetried ==
    /\ [](\A t \in Tasks :
            IsGraphCall(t) =>
                Len(sent[t]) = Len(recv[t]) + (IF Awaiting(t) THEN 1 ELSE 0))
    /\ [][\A t \in Tasks :
            (Awaiting(t) /\ Len(recv'[t]) = Len(recv[t]) + 1) =>
                LET r == recv'[t][Len(recv'[t])] IN
                /\ r.status \notin {200, 502} =>
                       /\ sent'[t] = sent[t]
                       /\ pc'[t] = "raised"
                       /\ ret'[t] = Raise("Exception",
                                          <<call[t].query, r.status, StatusText(r.status)>>)
                       /\ cache' = cache
                /\ (sent'[t] # sent[t] /\ r.status # 200) =>
                       /\ r.status = 502
                       /\ retries_count[t] > 0
                       /\ sent'[t] = Append(sent[t], sent[t][Len(sent[t])])]_vars

\* A query answered 502 and then 401 has failed on its second request with
\* nine retries left.
C14_Witness ==
    \E t \in Tasks :
        /\ IsSingleQuery(t) /\ pc[t] = "raised"
        /\ Len(recv[t]) = 2 /\ recv[t][1].status = 502 /\ recv[t][2].status = 401
        /\ Len(sent[t]) = 2
        /\ retries_count[t] = RetriesDefault - 1
        /\ ret[t] = Raise("Exception", <<call[t].query, 401, "Unauthorized">>)

IsPaginated(t) == IsGraphCall(t) /\ HasPagination(call[t].query) /\ sent[t] # <<>>

\* A 200 response in which a nodes/pageInfo object with hasNextPage true is found.
HasNext(r) == r.status = 200 /\ r.shape \in {"page", "null_nodes"} /\ r.more

(***************************************************************************)
(* C15: in one paginated query at most one request is unanswered at any    *)
(* time; the first asks for 'first: 100'; a request that follows a 200     *)
(* response follows a page with hasNextPage true and carries the endCursor *)
(* of that page (one that follows a 502 repeats the request); no request   *)
(* follows a page with hasNextPage false or a body without the             *)
(* nodes/pageInfo shape.                                                   *)
(***************************************************************************)
C15_PagesInSequence ==
    \A t \in Tasks :
        IsPaginated(t) =>
            /\ Len(sent[t]) = Len(recv[t]) + (IF Awaiting(t) THEN 1 ELSE 0)
            /\ sent[t][1] = "first: 100"
            /\ \A j \in 2..Len(sent[t]) :
                   LET r == recv[t][j - 1] IN
                   /\ r.status \in {200, 502}
                   /\ r.status = 502 => sent[t][j] = sent[t][j - 1]
                   /\ r.status = 200 =>
                          /\ HasNext(r)
                          /\ sent[t][j] = "first: 100, after: \"" \o r.cur.v \o "\""
            /\ \A k \in DOMAIN recv[t] :
                   (recv[t][k].status = 200 /\ ~HasNext(recv[t][k])) =>
                       (k = Len(recv[t]) /\ Len(sent[t]) = k /\ ~Awaiting(t))

\* Three pages with cursors a and b were requested one after the other and
\* the traversal has returned.
C15_Witness ==
    \E t \in Tasks :
        /\ IsPaginated(t) /\ pc[t] = "returned"
        /\ sent[t] = <<"first: 100", "first: 100, after: \"a\"", "first: 100, after: \"b\"">>
        /\ Len(recv[t]) = 3
        /\ recv[t][1].cur = Str("a") /\ recv[t][2].cur = Str("b") /\ ~recv[t][3].more

(***************************************************************************)
(* C16: while the traversal of a paginated query is under way, and after   *)
(* it has failed on any of its requests, the cache has no entry for the    *)
(* key; an entry exists only once the traversal has returned, it is the    *)
(* value returned, and when every page held a list of nodes it is the      *)
(* concatenation of the nodes of all pages in order.                       *)
(***************************************************************************)
C16_CachedAfterTraversal ==
    \A t \in Tasks :
        IsPaginated(t) =>
            /\ (Awaiting(t) \/ pc[t] = "raised") => KeyOfTask(t) \notin DOMAIN cache
            /\ KeyOfTask(t) \in DOMAIN cache =>
                   /\ pc[t] = "returned"
                   /\ ret[t] = Return(cache[KeyOfTask(t)])
                   /\ writes[KeyOfTask(t)] = 1
                   /\ ~HasNext(recv[t][Len(recv[t])])
                   /\ (\A k \in DOMAIN recv[t] : recv[t][k].shape # "null_nodes") =>
                          cache[KeyOfTask(t)] = List(Flatten(Got(t, 200)))

\* A traversal that had received two pages failed on its third request and
\* left no entry.
C16_Witness ==
    \E t \in Tasks :
        /\ IsPaginated(t) /\ pc[t] = "raised"
        /\ Len(Got(t, 200)) = 2
        /\ Flatten(Got(t, 200)) # <<>>
        /\ recv[t][Len(recv[t])].status = 401
        /\ KeyOfTask(t) \notin DOMAIN cache

\* A traversal of three pages has returned and the entry holds all of them.
C16_WitnessComplete ==
    \E t \in Tasks :
        /\ IsPaginated(t) /\ pc[t] = "returned"
        /\ Len(Got(t, 200)) = 3
        /\ Len(cache[KeyOfTask(t)].v) = 3 * MaxPageLen

CommitFetch(e) == e.ev = "fetch" /\ e.query = "repo_commit_list"

CommitReturn(e) == e.ev = "return" /\ e.query = "repo_commit_list"

\* The delays of the pass match its branches in the trace from position
\* 1 on: one delay right after each commit list the pass was handed, one
\* between any two commit-list fetches, none in a debug run.
DelayPerBranch ==
    IF DEBUG_RUN THEN \A k \in DOMAIN trace : trace[k] # Slept
    ELSE /\ \A k \in DOMAIN trace :
                CommitReturn(trace[k]) => (k < Len(trace) /\ trace[k + 1] = Slept)
         /\ \A k \in DOMAIN trace :
                trace[k] = Slept => (k > 1 /\ CommitReturn(trace[k - 1]))
         /\ \A i, j \in DOMAIN trace :
                (i < j /\ CommitFetch(trace[i]) /\ CommitFetch(trace[j])) =>
                    \E k \in (i + 1)..(j - 1) : trace[k] = Slept

(***************************************************************************)
(* C17: outside a debug run the pass sleeps once after each branch of a    *)
(* repository it did not skip, before it fetches the commit history of the *)
(* next branch, so that a delay lies between any two commit-history        *)
(* fetches, and it sleeps at no other time; in a debug run it never        *)
(* sleeps.                                                                 *)
(***************************************************************************)
C17_DelayAfterEachBranch == DelayPerBranch

(***************************************************************************)
(* The part of C17 the code keeps: as long as every commit history the     *)
(* pass was handed is a list, the delays are as C17 says.                  *)
(***************************************************************************)
C17_DelayAfterFoldedBranch ==
    (\A k \in DOMAIN trace : ~Malformed(trace[k])) => DelayPerBranch

\* Outside a debug run, the commit history of a second branch was fetched
\* right after the first came back malformed.
C17_WitnessNoDelay ==
    /\ ~DEBUG_RUN
    /\ \E k \in DOMAIN trace :
           /\ Malformed(trace[k])
           /\ k < Len(trace) /\ CommitFetch(trace[k + 1])

\* The pair the fold makes of the commit lists the pass was handed, in the
\* order it was handed them: a function of the responses alone.
RECURSIVE Replay(_, _)
Replay(st, es) ==
    IF es = <<>> THEN st
    ELSE LET e == Head(es) IN
         Replay(IF e.value.t = "list"
                THEN FoldCommits(st, RepoNamed(e.name), Branch(e.branch), e.value.v)
                ELSE st,
                Tail(es))

ReplayedPair ==
    LET st == Replay([yearly |-> <<>>, dates |-> <<>>, log |-> <<>>, err |-> FALSE],
                     Returns("repo_commit_list"))
    IN  List(<<st.yearly, st.dates>>)

\* The calls of the pass and what they returned, without its sleeps.
Exchange == SelectSeq(trace, LAMBDA e : e.ev # "sleep")

\* In the exchange T, entry k was followed by the branch-list fetch of the
\* first repository kept after the one named, or by nothing when none is left.
ThenNextRepo(T, k, name) ==
    IF LaterKept(name) = {} THEN k = Len(T)
    ELSE LET nxt == CHOOSE i \in LaterKept(name) : \A j \in LaterKept(name) : i <= j
         IN  k < Len(T) /\ T[k + 1] = Fetch("repo_branch_list", repositories[nxt], "")

\* A complete exchange is the one the responses in it determine: each call
\* is the one the responses before it lead to.
ExchangeFollowsResponses ==
    LET T == Exchange
        kept == {i \in DOMAIN repositories : repositories[i].name \notin IGNORED_REPOS}
    IN  /\ (kept = {}) <=> (T = <<>>)
        /\ kept # {} =>
               T[1] = Fetch("repo_branch_list",
                            repositories[CHOOSE i \in kept : \A j \in kept : i <= j], "")
        /\ \A k \in DOMAIN T :
               LET e == T[k] IN
               /\ e.ev = "fetch" =>
                      /\ k < Len(T)
                      /\ T[k + 1].ev = "return" /\ T[k + 1].query = e.query
                      /\ T[k + 1].name = e.name /\ T[k + 1].branch = e.branch
               /\ (e.ev = "return" /\ e.query = "repo_branch_list") =>
                      IF e.value.v = <<>> THEN ThenNextRepo(T, k, e.name)
                      ELSE /\ k < Len(T)
                           /\ T[k + 1] = Fetch("repo_commit_list", RepoNamed(e.name),
                                               e.value.v[1].name)
               /\ (e.ev = "return" /\ e.query = "repo_commit_list") =>
                      LET bs == BranchesOf(e.name)
                          p == CHOOSE i \in DOMAIN bs : bs[i].name = e.branch
                      IN  IF p < Len(bs)
                          THEN /\ k < Len(T)
                               /\ T[k + 1] = Fetch("repo_commit_list", RepoNamed(e.name),
                                                   bs[p + 1].name)
                          ELSE ThenNextRepo(T, k, e.name)

(***************************************************************************)
(* C18: when no pair is restored, the calls a pass makes and the pair it   *)
(* returns are those its repository list, its ignore set and the responses *)
(* to its calls determine, whether the debug flag is set or not; the flag  *)
(* decides only whether the pass sleeps after a branch and whether it      *)
(* persists the pair it returns.                                           *)
(***************************************************************************)
C18_FlagKeepsSemantics ==
    (apc = "done" /\ Computed) =>
        /\ ExchangeFollowsResponses
        /\ outcome = Return(ReplayedPair)
        /\ saved = (IF DEBUG_RUN THEN ReplayedPair ELSE Null)
        /\ DEBUG_RUN => \A k \in DOMAIN trace : trace[k] # Slept

\* A debug run has returned and persisted the pair with the sums of two
\* commits, without a sleep.
C18_Witness ==
    /\ DEBUG_RUN /\ apc = "done" /\ Computed
    /\ saved = outcome.value
    /\ HasKey(2023, 2, "Python")
    /\ outcome.value.v[1][2023][2]["Python"] = [add |-> 15, del |-> 3]
    /\ \A k \in DOMAIN trace : trace[k] # Slept

\* A run without the flag has returned the same pair, slept and persisted
\* nothing.
C18_WitnessNoFlag ==
    /\ ~DEBUG_RUN /\ apc = "done"
    /\ saved = Null
    /\ HasKey(2023, 2, "Python")
    /\ outcome.value.v[1][2023][2]["Python"] = [add |-> 15, del |-> 3]
    /\ \E k \in DOMAIN trace : trace[k] = Slept

\* The entries (repository, branch, oid) of date_data for repositories of
\* language lang whose commit is dated in the quarter.
DateEntries(year, quarter, lang) ==
    {e \in UNION {UNION {{<<n, b, oid>> : oid \in DOMAIN date_data[n][b]} :
                            b \in DOMAIN date_data[n]} : n \in DOMAIN date_data} :
        /\ HasLanguage(e[1], lang)
        /\ FactOf(CommitOf(e[3])).year = year /\ FactOf(CommitOf(e[3])).quarter = quarter}

RECURSIVE EntriesTotal(_, _)
EntriesTotal(S, field) ==
    IF S = {} THEN 0
    ELSE LET e == CHOOSE x \in S : TRUE
         IN  CommitOf(e[3])[field] + EntriesTotal(S \ {e}, field)

\* The branches of the repository named under which dates holds the oid.
BranchesIn(dates, name, oid) ==
    IF name \notin DOMAIN dates THEN {}
    ELSE {b \in DOMAIN dates[name] : oid \in DOMAIN dates[name][b]}

BranchesHolding(name, oid) == BranchesIn(date_data, name, oid)

(***************************************************************************)
(* C19: the fold does not deduplicate by oid.  The tally of a key is the   *)
(* sum over the date_data entries (repository, branch, oid) of that key,   *)
(* one term per entry: a commit recorded under k branches of a repository  *)
(* with a primary language is counted k times; and a step that hands a     *)
(* commit whose oid date_data already holds under another branch of the    *)
(* repository still adds its additions and deletions to the tally.         *)
(***************************************************************************)
C19_NoDedupByOid ==
    /\ [](\A k \in PresentKeys \cup FactKeys :
            LET S == DateEntries(k[1], k[2], k[3]) IN
            IF S = {} THEN ~HasKey(k[1], k[2], k[3])
            ELSE /\ HasKey(k[1], k[2], k[3])
                 /\ yearly_data[k[1]][k[2]][k[3]] =
                        [add |-> EntriesTotal(S, "additions"),
                         del |-> EntriesTotal(S, "deletions")])
    /\ [][(/\ Len(trace') > Len(trace)
           /\ CommitsHanded(trace'[Len(trace) + 1])
           /\ RepoNamed(trace'[Len(trace) + 1].name).primaryLanguage.t # "null"
           /\ BranchesIn(date_data, trace'[Len(trace) + 1].name,
                         trace'[Len(trace) + 1].value.v[1].oid) # {})
          => LET e == trace'[Len(trace) + 1]
                 f == FactOf(e.value.v[1])
                 l == RepoNamed(e.name).primaryLanguage.v.name
             IN  /\ yearly_data'[f.year][f.quarter][l].add >=
                        yearly_data[f.year][f.quarter][l].add + e.value.v[1].additions
                 /\ yearly_data'[f.year][f.quarter][l].del >=
                        yearly_data[f.year][f.quarter][l].del + e.value.v[1].deletions
                 /\ BranchesIn(date_data', e.name, e.value.v[1].oid) =
                        BranchesIn(date_data, e.name, e.value.v[1].oid) \cup {e.branch}]_vars

\* Commits a and b were handed for two branches of one Python repository:
\* date_data holds each under both branches and the tally counts each twice.
C19_Witness ==
    /\ apc = "done" /\ Computed
    /\ \E n \in DOMAIN date_data :
           /\ HasLanguage(n, "Python")
           /\ Cardinality(BranchesHolding(n, "a")) = 2
           /\ Cardinality(DateEntries(2023, 2, "Python")) = 4
    /\ yearly_data[2023][2]["Python"] = [add |-> 30, del |-> 6]

\* The one response of the call of task t was a 200 body in which no
\* nodes/pageInfo object is found.
Shapeless(t) ==
    /\ Len(recv[t]) = 1
    /\ recv[t][1].status = 200
    /\ recv[t][1].shape \in {"errors", "null_leaf", "empty"}

(***************************************************************************)
(* C20: in a pass running on DownloadManager from an empty cache, every    *)
(* branch-list and commit-history call that returns, returns a sequence,   *)
(* whatever the 200 bodies were, and so the pass never takes the skip for  *)
(* a commit history that is not a list.                                    *)
(***************************************************************************)
C20_AlwaysSequence ==
    /\ \A t \in Tasks :
           (IsPaginated(t) /\ pc[t] = "returned") => ret[t].value.t = "list"
    /\ \A k \in DOMAIN trace : ~Malformed(trace[k])

\* The part of C20 about bodies without the nodes/pageInfo shape: such a
\* call returns the empty sequence, and a commit history of that kind is
\* folded as a branch with no commit.
C20_ShapelessIsEmpty ==
    /\ [](\A t \in Tasks :
            (IsPaginated(t) /\ pc[t] = "returned" /\ Shapeless(t)) =>
                ret[t].value = List(<<>>))
    /\ [][\A t \in Tasks :
            (/\ apc = "commits" /\ t = CurrentTask
             /\ pc[t] = "returned" /\ Shapeless(t)
             /\ Len(trace') > Len(trace))
            => /\ trace'[Len(trace) + 1] =
                      Returned("repo_commit_list", RepoNamed(trace[Len(trace)].name),
                               trace[Len(trace)].branch, List(<<>>))
               /\ yearly_data' = yearly_data /\ date_data' = date_data
               /\ apc' # "failed"]_vars

\* A commit-history call returned None after a 200 page whose nodes value is
\* null, and the pass took the skip.
C20_WitnessNone ==
    \E t \in Tasks :
        /\ IsPaginated(t) /\ call[t].query = "repo_commit_list"
        /\ pc[t] = "returned" /\ ret[t].value = Null
        /\ recv[t][Len(recv[t])].shape = "null_nodes"
        /\ \E k \in DOMAIN trace : Malformed(trace[k]) /\ trace[k].value = Null

\* An errors body was answered to a commit-history call and the branch was
\* folded as one with no commit.
C20_WitnessShapeless ==
    \E t \in Tasks :
        /\ IsPaginated(t) /\ call[t].query = "repo_commit_list"
        /\ Shapeless(t) /\ recv[t][1].shape = "errors"
        /\ (t < CurrentTask \/ apc \in {"done", "sleep"})
        /\ \E k \in DOMAIN trace :
               /\ trace[k].ev = "return" /\ trace[k].query = "repo_commit_list"
               /\ trace[k].value = List(<<>>)

====
